---- MODULE Spec2Model ----
(***************************************************************************)
(* Marshalling layer of engine_web-ifc.                                    *)
(*                                                                         *)
(* Three layers reach the engine (webifc::manager::ModelManager):          *)
(*   - the webifc_ functions of web-ifc-ffi.cpp, which use the static      *)
(*     g_manager and take the static std::mutex g_mutex;                   *)
(*   - the ifc_api_ functions of web_ifc_api.cpp, which use api->manager   *)
(*     and take no lock;                                                   *)
(*   - the helpers of helpers/web_ifc_wasm.cpp, which take the manager as  *)
(*     a parameter and take no lock (same translation unit as ifc_api_).   *)
(* The two libraries are separate programs with separate managers: Spec    *)
(* is the webifc_ library driven by one thread, SpecApi the ifc_api_ /     *)
(* helper library driven by two threads, SpecFlat the single-element       *)
(* geometry request of the webifc_ library over every bounded flat mesh    *)
(* the engine may return.                                                  *)
(* The engine itself is not part of the repository: its registry and its   *)
(* loader are modelled by what the layer observes of them, and whether an  *)
(* engine call throws is an input of the step that makes the call.         *)
(***************************************************************************)
EXTENDS Integers, Sequences, FiniteSets, TLC

\* ------------------------------------------------------------------ bounds
MaxHandle == 0
MaxExpressId == 3
MaxVerts == 1
MaxIdx == 1
MaxPlaced == 2
MaxApiId == 1
MaxModels == 1
MaxText == 3
MaxElems == 1
MaxChars == 2
MaxArgIndex == 1
MaxLen == 2
MaxGuid == 2
MaxScan == 2
MaxSet == 1
MaxFields == 2

\* ------------------------------------------------------- program constants
VERTEX_FORMAT_SIZE_FLOATS == 6
\* const double* vertices; // XYZ triplets
XyzTriplet == 3

Threads == {"t1", "t2"}
\* the thread that drives the webifc_ library
Callers == {"t1"}
NoThread == "none"
Handles == 0 .. MaxHandle
ExpressIds == 1 .. MaxExpressId
\* the express ids the callers of the unlocked layer pass
ApiIds == 1 .. MaxApiId

WEBIFC_OK == "WEBIFC_OK"
WEBIFC_ERR_INVALID_MODEL == "WEBIFC_ERR_INVALID_MODEL"
WEBIFC_ERR_INVALID_ARGUMENT == "WEBIFC_ERR_INVALID_ARGUMENT"
WEBIFC_ERR_INTERNAL == "WEBIFC_ERR_INTERNAL"
WEBIFC_ERR_OUT_OF_RANGE == "WEBIFC_ERR_OUT_OF_RANGE"
NoCode == "-"

\* ------------------------------------------------------------ engine data
IFCWALL == "IFCWALL"
IFCSLAB == "IFCSLAB"
IFCOPENINGELEMENT == "IFCOPENINGELEMENT"
IFCOPENINGSTANDARDCASE == "IFCOPENINGSTANDARDCASE"
IFCSPACE == "IFCSPACE"

\* element types known to the schema manager
GetIfcElementList ==
  <<IFCWALL, IFCSLAB, IFCOPENINGELEMENT, IFCOPENINGSTANDARDCASE, IFCSPACE>>

\* the type of each line of the file the tests load
GetLineType(id) ==
  CASE id = 1 -> IFCWALL
    [] id = 2 -> IFCOPENINGELEMENT
    [] OTHER -> IFCSLAB

\* vertex data of a geometry with nv vertices: 6 lanes per vertex, every
\* lane value tagged with the geometry that owns it
VData(gid, nv) ==
  [p \in 1 .. (nv * VERTEX_FORMAT_SIZE_FLOATS) |-> 100 * gid + p]

Geom(gid, nv, ix) == [vertexData |-> VData(gid, nv), indexData |-> ix]

\* index buffers of at most MaxIdx local indices into nv vertices
IndexSeqs(nv) ==
  UNION {[1 .. n -> 0 .. (nv - 1)] : n \in 0 .. MaxIdx}

\* the geometries the engine may hand out at position k of a flat mesh
GeomsAt(k) ==
  {Geom(k, nv, ix) : <<nv, ix>> \in
     UNION {{<<nv, ix>> : ix \in IndexSeqs(nv)} : nv \in 0 .. MaxVerts}}

RECURSIVE FlatMeshesOfLen(_)
FlatMeshesOfLen(n) ==
  IF n = 0 THEN {<<>>}
  ELSE {Append(f, g) : f \in FlatMeshesOfLen(n - 1), g \in GeomsAt(n)}

\* every flat mesh of at most MaxPlaced placed geometries
FlatMeshes == UNION {FlatMeshesOfLen(n) : n \in 0 .. MaxPlaced}

\* the placed geometries of the loaded file: line 1 has two, line 2 one,
\* line 3 none
FileGeometry ==
  [id \in ExpressIds |->
     CASE id = 1 -> <<Geom(1, 2, <<1>>), Geom(2, 1, <<0>>)>>
       [] id = 2 -> <<Geom(MaxPlaced + 1, 1, <<0>>)>>
       [] OTHER -> <<>>]

\* 4x4 matrices, by name
Identity == "identity"
Matrices == {Identity, "M"}

EmptyBuffers == [s_vertices |-> <<>>, s_indices |-> <<>>]

BufferOwners ==
  {"webifc_get_flat_mesh", "webifc_stream_meshes",
   "webifc_stream_all_flat_meshes"}

\* the loader of a model that has read no argument yet stands nowhere
NoPosition == <<0, 0>>

\* ----------------------------------------------------------------- state
VARIABLES
  open,        \* handles the manager's registry holds open
  lines,       \* lines[h]: valid express ids of model h
  geomTable,   \* placed geometries per express id (engine data)
  g_mutex,     \* thread that owns the static std::mutex, or NoThread
  pc,          \* position of each thread inside its current call
  call,        \* the current (or last completed) call of each thread
  s_buffers,   \* the function-local static s_vertices / s_indices
  transformation, \* transformation[h]: matrix set on the geometry processor
  deleted_lines,  \* IfcAPI::deleted_lines[h]
  cursor,         \* cursor[h]: <<line, argument>> the loader of h stands at
  coordination    \* coordination[h]: coordination matrix of the processor

vars == <<open, lines, geomTable, g_mutex, pc, call, s_buffers,
          transformation, deleted_lines, cursor, coordination>>

\* what the geometry and the ifc_api_ functions leave alone
engineVars ==
  <<open, lines, geomTable, transformation, deleted_lines, cursor,
    coordination>>

\* op: function the caller called, fn: function executing (differs from op
\* inside a nested call); model, expressId, m, argOk, ids, types, skip: the
\* arguments (argOk: the pointer arguments are non-null and non-empty;
\* userData: the context pointer of a streaming call; reentrant: the
\* callback passed calls back into the library);
\* i, streamed: loop position and counter of a streaming call;
\* cbs: the callback invocations made, eng: the engine calls made;
\* valid: what the function's IsModelOpen check saw; code, num, flag, out:
\* what the call returned; flat: what the engine's GetFlatMesh returned;
\* fault: the call ended with an exception leaving the function; caught: the
\* call returned from the catch (...) block of a streaming function;
\* reentry: what became of the call a reentrant callback made;
\* payload, need, dest: the payload of a buffer transfer, what the preflight
\* call returned and the destination the caller passed to the fill call;
\* outNull, inner0: whether the pointer-to-pointer destination of an
\* auto-allocating transfer was null, and what it pointed to at the call;
\* mallocs, allocs: the calls of std::malloc and those that gave storage;
\* raw, text: the string a text function was given and the string behind
\* the pointer it returned (flag: the pointer is not null);
\* typeCode, typeName: the type a schema function was asked about and the
\* name it returned; length: the size of the buffer a model is opened from;
\* argIndex, maxLen: the argument index and the buffer size an argument
\* accessor was given; value: what it stored through its output pointer;
\* written: the bytes it copied into the caller's buffer;
\* ptr: the static buffer a returned pointer points into, or "null";
\* before: the pointer the caller still holds from its previous call;
\* scan, set, inverseIDs: the lines an inverse-property lookup scans, its
\* mode (FALSE: stop after the first match) and the vector it returned;
\* settings, eff: the settings pointer a call was given and the settings
\* record it materialized
NoCall ==
  [op |-> "none", fn |-> "none", m |-> Identity, model |-> 0, expressId |-> 0, argOk |-> TRUE,
   ids |-> <<>>, types |-> <<>>, skip |-> FALSE, userData |-> <<>>,
   reentrant |-> FALSE, reentry |-> "none",
   i |-> 0, streamed |-> 0, cbs |-> <<>>, eng |-> {},
   valid |-> TRUE, code |-> NoCode, num |-> 0, flag |-> FALSE,
   out |-> EmptyBuffers, flat |-> <<>>, fault |-> FALSE, caught |-> FALSE,
   payload |-> <<>>, need |-> 0, dest |-> [null |-> TRUE, cells |-> <<>>],
   outNull |-> FALSE, inner0 |-> [null |-> TRUE, cells |-> <<>>],
   mallocs |-> 0, allocs |-> 0, raw |-> <<>>, text |-> <<>>,
   typeCode |-> 0, typeName |-> "", length |-> 0,
   argIndex |-> 0, maxLen |-> 0, written |-> 0,
   ptr |-> "null", before |-> "null",
   scan |-> <<>>, set |-> TRUE, inverseIDs |-> <<>>,
   settings |-> [null |-> TRUE], eff |-> <<>>,
   value |-> [as |-> "NONE", of |-> [type |-> "NONE", value |-> <<>>]]]

NewCall(op) == [NoCall EXCEPT !.op = op, !.fn = op]

\* the void* userData a thread passes with its callback
UserData(t) == <<"userData", t>>

\* identifier lists and type lists the callers stream
IdLists == {<<>>, <<2>>, <<1, 3, 2>>}
TypeLists == {<<>>, <<IFCSPACE>>, <<IFCWALL, IFCOPENINGELEMENT>>}

\* ---------------------------------------------------------- pure helpers
\* the flattening loop shared by the three geometry functions (uint32_t
\* sums; they stay far below 2^32 for buffers that fit in memory)
Rebase_local(indexData, vertexOffset) == indexData

\* for(auto idx : geom.indexData) s_indices.push_back(idx + vertexOffset)
Rebase(indexData, vertexOffset) ==
  [j \in 1 .. Len(indexData) |-> indexData[j] + vertexOffset]

NextOffset_lanes(vertexOffset, vertsToCopy) == vertexOffset + vertsToCopy

\* vertexOffset += vertsToCopy / VERTEX_FORMAT_SIZE_FLOATS
NextOffset(vertexOffset, vertsToCopy) ==
  vertexOffset + (vertsToCopy \div VERTEX_FORMAT_SIZE_FLOATS)

RECURSIVE FlattenFrom(_, _, _, _)
FlattenFrom(geometries, k, acc, vertexOffset) ==
  IF k > Len(geometries) THEN acc
  ELSE LET geom == geometries[k]
           vertsToCopy == Len(geom.vertexData)
       IN FlattenFrom(geometries, k + 1,
            [s_vertices |-> acc.s_vertices \o geom.vertexData,
             s_indices |-> acc.s_indices
                             \o Rebase(geom.indexData, vertexOffset)],
            NextOffset(vertexOffset, vertsToCopy))

Flatten_keep(prev, geometries) == FlattenFrom(geometries, 1, prev, 0)

\* s_vertices.clear(); s_indices.clear(); then the loop over flat.geometries
Flatten(prev, geometries) == FlattenFrom(geometries, 1, EmptyBuffers, 0)

\* where the engine may throw while a line is flattened: 0 nowhere,
\* 1 in GetFlatMesh, k + 1 in GetGeometry of the k-th placed geometry
ThrowPoints(flat) == 0 .. (Len(flat) + 1)

\* the buffers when GetGeometry of the k-th placed geometry has thrown
Partial(prev, flat, thr) == Flatten(prev, SubSeq(flat, 1, thr - 2))

\* ---------------------------------------------------------------- engine
\* the identifiers the manager hands out and the callers pass
ModelIds == DOMAIN lines

IsModelOpen(h) == h \in open

\* processor->GetFlatMesh(expressId): the placed geometries of a line
GetFlatMesh(h, id) == IF id \in lines[h] THEN geomTable[id] ELSE <<>>

\* loader->GetExpressIDsWithType(type), ascending
RECURSIVE IdsWithTypeFrom(_, _, _)
IdsWithTypeFrom(h, type, id) ==
  IF id > MaxExpressId THEN <<>>
  ELSE (IF id \in lines[h] /\ GetLineType(id) = type THEN <<id>> ELSE <<>>)
       \o IdsWithTypeFrom(h, type, id + 1)

GetExpressIDsWithType(h, type) == IdsWithTypeFrom(h, type, 1)

RECURSIVE IdsWithTypes(_, _, _)
IdsWithTypes(h, types, k) ==
  IF k > Len(types) THEN <<>>
  ELSE GetExpressIDsWithType(h, types[k]) \o IdsWithTypes(h, types, k + 1)

\* position of a type in the schema's element list, standing for its code
RECURSIVE TypeCodeFrom(_, _)
TypeCodeFrom(type, k) ==
  IF k > Len(GetIfcElementList) THEN 0
  ELSE IF GetIfcElementList[k] = type THEN k
  ELSE TypeCodeFrom(type, k + 1)

\* loader->GetLineType(expressId): the type code of a line, 0 for no line
GetLineTypeCode(h, id) ==
  IF id \in lines[h] THEN TypeCodeFrom(GetLineType(id), 1) ELSE 0

\* loader->GetTotalSize(): the size of the tape, here one unit per line
GetTotalSize(h) == Cardinality(lines[h])

\* loader->GetMaxExpressId()
GetMaxExpressId(h) ==
  IF lines[h] = {} THEN 0
  ELSE CHOOSE x \in lines[h] : \A y \in lines[h] : y <= x

Init ==
  /\ open = {}
  /\ lines = [h \in Handles |-> {}]
  /\ geomTable = FileGeometry
  /\ g_mutex = NoThread
  /\ pc = [t \in Threads |-> "idle"]
  /\ call = [t \in Threads |-> NoCall]
  /\ s_buffers = [f \in BufferOwners |-> EmptyBuffers]
  /\ transformation = [h \in Handles |-> Identity]
  /\ deleted_lines = [h \in Handles |-> {}]
  /\ cursor = [h \in Handles |-> NoPosition]
  /\ coordination = [h \in Handles |-> Identity]

\* ----------------------------------------------------- call bookkeeping
\* a call starts: the thread leaves "idle" with a fresh call record
Start(t, c, to) ==
  /\ pc[t] = "idle"
  /\ pc' = [pc EXCEPT ![t] = to]
  /\ call' = [call EXCEPT ![t] = c]

\* thread t is at position at of function op
At(t, op, at) == pc[t] = at /\ call[t].fn = op

\* the call record once the function has made its IsModelOpen check
Checked(t) == [call[t] EXCEPT !.valid = IsModelOpen(call[t].model)]

NullArgumentGuard_late(t, c, code) == Start(t, c, "lock")

\* the null / empty argument test a function makes before it takes the lock
NullArgumentGuard(t, c, code) ==
  IF ~c.argOk THEN Start(t, [c EXCEPT !.code = code], "idle")
  ELSE Start(t, c, "lock")

lock_guard_skip(t) ==
  /\ pc[t] = "lock"
  /\ pc' = [pc EXCEPT ![t] = "held"]
  /\ UNCHANGED <<engineVars, g_mutex, call, s_buffers>>

\* std::lock_guard<std::mutex> lock(g_mutex): blocks until the mutex is free
lock_guard(t) ==
  /\ pc[t] = "lock"
  /\ g_mutex = NoThread
  /\ g_mutex' = t
  /\ pc' = [pc EXCEPT ![t] = "held"]
  /\ UNCHANGED <<engineVars, call, s_buffers>>

\* the call returns; the lock_guard destructor releases the mutex
Return(t, c) ==
  /\ pc' = [pc EXCEPT ![t] = "idle"]
  /\ call' = [call EXCEPT ![t] = c]
  /\ g_mutex' = NoThread

\* an engine exception that no try block of the function encloses leaves the
\* function; unwinding runs the lock_guard destructor
Propagate(t, c) == Return(t, [c EXCEPT !.fault = TRUE])

\* a second lock_guard on g_mutex by the thread that owns it, made by the
\* nested call to function inner: undefined behaviour of std::mutex. The
\* lock either never returns, or throws std::system_error (which lands in
\* the catch (...) of the outer function, which returns its counter), or
\* does nothing (a build whose mutex is a no-op without the thread library)
\* and the nested function runs
Relock(t, c, inner) ==
  \/ /\ pc' = [pc EXCEPT ![t] = "deadlocked"]
     /\ call' = [call EXCEPT ![t] = c]
     /\ g_mutex' = g_mutex
  \/ Return(t, [c EXCEPT !.num = c.streamed, !.caught = TRUE])
  \/ /\ pc' = [pc EXCEPT ![t] = "held"]
     /\ call' = [call EXCEPT ![t] = [c EXCEPT !.fn = inner]]
     /\ g_mutex' = g_mutex

\* manager.CreateModel(settings) returning h: a fresh loader and processor
ManagerCreateModel(h) ==
  /\ open' = open \cup {h}
  /\ lines' = [lines EXCEPT ![h] = {}]
  /\ transformation' = [transformation EXCEPT ![h] = Identity]
  /\ coordination' = [coordination EXCEPT ![h] = Identity]

\* manager.CloseModel(h): no effect on a handle that is not open
ManagerCloseModel(h) ==
  /\ open' = open \ {h}
  /\ lines' = [lines EXCEPT ![h] = {}]
  /\ transformation' = [transformation EXCEPT ![h] = Identity]
  /\ coordination' = [coordination EXCEPT ![h] = Identity]

Creators == {"webifc_create_model", "CreateModel", "OpenModel"}

\* the registry has a handle left for every call that may create a model
CanCreate(op) ==
  Cardinality(open)
    + Cardinality({u \in Threads : /\ pc[u] \in {"lock", "held", "engine"}
                                   /\ call[u].fn \in Creators})
    < Cardinality(ModelIds)

\* ------------------------------------------------------------- lifecycle
webifc_create_model_zero(t) ==
  \/ /\ CanCreate("webifc_create_model")
     /\ Start(t, NewCall("webifc_create_model"), "lock")
     /\ UNCHANGED <<engineVars, g_mutex, s_buffers>>
  \/ /\ At(t, "webifc_create_model", "held")
     /\ \E h \in ModelIds \ open :
          /\ ManagerCreateModel(h)
          /\ Return(t, [call[t] EXCEPT !.num = 0, !.model = 0,
                                       !.eng = {"CreateModel"}])
     /\ UNCHANGED <<geomTable, s_buffers, deleted_lines, cursor>>

\* WebIFC_ModelHandle webifc_create_model(settings)
webifc_create_model(t) ==
  \/ /\ CanCreate("webifc_create_model")
     /\ Start(t, NewCall("webifc_create_model"), "lock")
     /\ UNCHANGED <<engineVars, g_mutex, s_buffers>>
  \/ /\ At(t, "webifc_create_model", "held")
     /\ \E h \in ModelIds \ open :
          /\ ManagerCreateModel(h)
          /\ Return(t, [call[t] EXCEPT !.num = h, !.model = h,
                                       !.eng = {"CreateModel"}])
     /\ UNCHANGED <<geomTable, s_buffers, deleted_lines, cursor>>

webifc_is_model_open(t) ==
  \/ /\ \E h \in ModelIds :
          Start(t, [NewCall("webifc_is_model_open") EXCEPT !.model = h], "lock")
     /\ UNCHANGED <<engineVars, g_mutex, s_buffers>>
  \/ /\ At(t, "webifc_is_model_open", "held")
     /\ Return(t, [call[t] EXCEPT !.flag = IsModelOpen(call[t].model)])
     /\ UNCHANGED <<engineVars, s_buffers>>

webifc_close_model_strict(t) ==
  \/ /\ \E h \in ModelIds :
          Start(t, [NewCall("webifc_close_model") EXCEPT !.model = h],
                "lock")
     /\ UNCHANGED <<engineVars, g_mutex, s_buffers>>
  \/ /\ At(t, "webifc_close_model", "held")
     /\ IF IsModelOpen(call[t].model)
        THEN /\ ManagerCloseModel(call[t].model)
             /\ Return(t, [call[t] EXCEPT !.eng = {"CloseModel"}])
        ELSE /\ Propagate(t, call[t])
             /\ UNCHANGED <<open, lines, transformation, coordination>>
     /\ UNCHANGED <<geomTable, s_buffers, deleted_lines, cursor>>

webifc_close_model_all(t) ==
  \/ /\ \E h \in ModelIds :
          Start(t, [NewCall("webifc_close_model") EXCEPT !.model = h],
                "lock")
     /\ UNCHANGED <<engineVars, g_mutex, s_buffers>>
  \/ /\ At(t, "webifc_close_model", "held")
     /\ open' = {}
     /\ lines' = [h \in ModelIds |-> {}]
     /\ transformation' = [h \in ModelIds |-> Identity]
     /\ coordination' = [h \in ModelIds |-> Identity]
     /\ Return(t, [call[t] EXCEPT !.eng = {"CloseAllModels"}])
     /\ UNCHANGED <<geomTable, s_buffers, deleted_lines, cursor>>

\* void webifc_close_model(model)
webifc_close_model(t) ==
  \/ /\ \E h \in ModelIds :
          Start(t, [NewCall("webifc_close_model") EXCEPT !.model = h],
                "lock")
     /\ UNCHANGED <<engineVars, g_mutex, s_buffers>>
  \/ /\ At(t, "webifc_close_model", "held")
     /\ ManagerCloseModel(call[t].model)
     /\ Return(t, [call[t] EXCEPT !.eng = {"CloseModel"}])
     /\ UNCHANGED <<geomTable, s_buffers, deleted_lines, cursor>>

webifc_close_all_models(t) ==
  \/ /\ Start(t, NewCall("webifc_close_all_models"), "lock")
     /\ UNCHANGED <<engineVars, g_mutex, s_buffers>>
  \/ /\ At(t, "webifc_close_all_models", "held")
     /\ open' = {}
     /\ lines' = [h \in ModelIds |-> {}]
     /\ transformation' = [h \in ModelIds |-> Identity]
     /\ coordination' = [h \in ModelIds |-> Identity]
     /\ Return(t, [call[t] EXCEPT !.eng = {"CloseAllModels"}])
     /\ UNCHANGED <<geomTable, s_buffers, deleted_lines, cursor>>

webifc_load_step_from_memory(t) ==
  \/ /\ \E h \in ModelIds, ok \in BOOLEAN :
          LET c == [NewCall("webifc_load_step_from_memory") EXCEPT
                      !.model = h, !.argOk = ok]
          IN NullArgumentGuard(t, c, WEBIFC_ERR_INVALID_ARGUMENT)
     /\ UNCHANGED <<engineVars, g_mutex, s_buffers>>
  \/ /\ At(t, "webifc_load_step_from_memory", "held")
     /\ LET h == call[t].model IN
        IF ~IsModelOpen(h)
        THEN /\ Return(t, [Checked(t) EXCEPT !.code = WEBIFC_ERR_INVALID_MODEL])
             /\ UNCHANGED lines
        ELSE \E throws \in BOOLEAN :
               LET c == [Checked(t) EXCEPT !.eng = {"GetIfcLoader", "LoadFile"}]
               IN IF throws
                  THEN /\ Return(t, [c EXCEPT !.code = WEBIFC_ERR_INTERNAL])
                       /\ UNCHANGED lines
                  ELSE /\ Return(t, [c EXCEPT !.code = WEBIFC_OK])
                       /\ lines' = [lines EXCEPT ![h] = ExpressIds]
     /\ UNCHANGED <<open, geomTable, s_buffers, transformation,
                    deleted_lines, cursor, coordination>>

\* --------------------------------------------------------- introspection
webifc_get_model_size_unchecked(t) ==
  \/ /\ \E h \in ModelIds :
          Start(t, [NewCall("webifc_get_model_size") EXCEPT !.model = h],
                "lock")
     /\ UNCHANGED <<engineVars, g_mutex, s_buffers>>
  \/ /\ At(t, "webifc_get_model_size", "held")
     /\ Return(t, [Checked(t) EXCEPT
                     !.eng = {"GetIfcLoader", "GetTotalSize"},
                     !.num = GetTotalSize(call[t].model)])
     /\ UNCHANGED <<engineVars, s_buffers>>

\* uint32_t webifc_get_model_size(model): no try block around GetTotalSize
webifc_get_model_size(t) ==
  \/ /\ \E h \in ModelIds :
          Start(t, [NewCall("webifc_get_model_size") EXCEPT !.model = h],
                "lock")
     /\ UNCHANGED <<engineVars, g_mutex, s_buffers>>
  \/ /\ At(t, "webifc_get_model_size", "held")
     /\ IF ~IsModelOpen(call[t].model)
        THEN Return(t, Checked(t))
        ELSE \E throws \in BOOLEAN :
               LET c == [Checked(t) EXCEPT
                           !.eng = {"GetIfcLoader", "GetTotalSize"}]
               IN IF throws
                  THEN Propagate(t, c)
                  ELSE Return(t, [c EXCEPT
                                    !.num = GetTotalSize(call[t].model)])
     /\ UNCHANGED <<engineVars, s_buffers>>

\* uint32_t webifc_get_line_type(model, expressId): no try block around
\* GetLineType
webifc_get_line_type(t) ==
  \/ /\ \E h \in ModelIds, id \in ExpressIds :
          Start(t, [NewCall("webifc_get_line_type") EXCEPT
                      !.model = h, !.expressId = id], "lock")
     /\ UNCHANGED <<engineVars, g_mutex, s_buffers>>
  \/ /\ At(t, "webifc_get_line_type", "held")
     /\ IF ~IsModelOpen(call[t].model)
        THEN Return(t, Checked(t))
        ELSE \E throws \in BOOLEAN :
               LET c == [Checked(t) EXCEPT
                           !.eng = {"GetIfcLoader", "GetLineType"}]
               IN IF throws
                  THEN Propagate(t, c)
                  ELSE Return(t, [c EXCEPT !.num =
                         GetLineTypeCode(call[t].model, call[t].expressId)])
     /\ UNCHANGED <<engineVars, s_buffers>>

\* ------------------------------------------------------ argument access
move_to_arg_any_handle(h, expressId, throws) ==
  IF expressId \notin lines[h]
  THEN [code |-> WEBIFC_ERR_OUT_OF_RANGE,
        eng |-> {"GetIfcLoader", "IsValidExpressID"}]
  ELSE [code |-> WEBIFC_OK,
        eng |-> {"GetIfcLoader", "IsValidExpressID", "MoveToLineArgument"}]

\* move_to_arg: handle check, loader lookup, id check, cursor move; the
\* result is the error code and the engine calls made
move_to_arg(h, expressId, throws) ==
  IF ~IsModelOpen(h)
  THEN [code |-> WEBIFC_ERR_INVALID_MODEL, eng |-> {}]
  ELSE IF expressId \notin lines[h]
  THEN [code |-> WEBIFC_ERR_OUT_OF_RANGE,
        eng |-> {"GetIfcLoader", "IsValidExpressID"}]
  ELSE IF throws
  THEN [code |-> WEBIFC_ERR_OUT_OF_RANGE,
        eng |-> {"GetIfcLoader", "IsValidExpressID", "MoveToLineArgument"}]
  ELSE [code |-> WEBIFC_OK,
        eng |-> {"GetIfcLoader", "IsValidExpressID", "MoveToLineArgument"}]

\* ------------------------------------------------------- line arguments
\* the argument indexes and the buffer sizes the callers pass
ArgIndexes == 0 .. MaxArgIndex
BufferSizes == 0 .. MaxLen

StringToken == "STRING"
RealToken == "REAL"
IntegerToken == "INTEGER"
RefToken == "REF"

\* the arguments the loaded file stores for line id, each with its token
\* type and the characters of its token
LineArguments(id) ==
  IF id = 1
  THEN <<[type |-> StringToken, value |-> <<"a">>]>>
  ELSE IF id = 2
  THEN <<[type |-> StringToken, value |-> <<"a", "b">>],
         [type |-> RefToken, value |-> <<"#", "1">>]>>
  ELSE <<[type |-> RealToken, value |-> <<"1", ".">>],
         [type |-> IntegerToken, value |-> <<"3">>],
         [type |-> StringToken, value |-> <<>>]>>

NoArgument == [type |-> "NONE", value |-> <<>>]

\* the argument a position of the tape stands at
ArgumentAt(pos) ==
  IF pos[1] \in ExpressIds /\ pos[2] < Len(LineArguments(pos[1]))
  THEN LineArguments(pos[1])[pos[2] + 1]
  ELSE NoArgument

\* loader->MoveToLineArgument(expressId, argIndex) throws for an index
\* beyond the arguments of the line
BeyondArguments(expressId, argIndex) ==
  argIndex >= Len(LineArguments(expressId))

MoveToLineArgument_stay(h, expressId, argIndex) == cursor

\* loader->MoveToLineArgument(expressId, argIndex): where the loader of h
\* stands afterwards
MoveToLineArgument(h, expressId, argIndex) ==
  [cursor EXCEPT ![h] = <<expressId, argIndex>>]

\* loader->Get<Type>Argument(): reads the argument under the cursor as the
\* requested type, whatever type is stored there, and steps past it
GetArgument(cur, h, type) == [as |-> type, of |-> ArgumentAt(cur[h])]
Advance(cur, h) == [cur EXCEPT ![h] = <<@[1], @[2] + 1>>]

\* std::string decoded = loader->GetDecodedStringArgument()
GetDecodedStringArgument(cur, h) ==
  LET arg == ArgumentAt(cur[h])
  IN IF arg.type = StringToken THEN arg.value ELSE <<>>

Fits_without_terminator(decoded, maxLen) == Len(decoded) <= maxLen

\* if (decoded.size() + 1 > maxLen) return WEBIFC_ERR_INVALID_ARGUMENT;
Fits(decoded, maxLen) == ~(Len(decoded) + 1 > maxLen)

\* WebIFC_ErrorCode webifc_get_string_argument(model, expressId, argIndex,
\* outBuffer, maxLen)
webifc_get_string_argument(t) ==
  \/ /\ \E h \in ModelIds, id \in ExpressIds, idx \in ArgIndexes,
          null \in BOOLEAN, maxLen \in BufferSizes :
          LET c == [NewCall("webifc_get_string_argument") EXCEPT
                      !.model = h, !.expressId = id, !.argIndex = idx,
                      !.maxLen = maxLen,
                      !.argOk = ~null /\ maxLen # 0]
          IN NullArgumentGuard(t, c, WEBIFC_ERR_INVALID_ARGUMENT)
     /\ UNCHANGED <<engineVars, g_mutex, s_buffers>>
  \/ /\ At(t, "webifc_get_string_argument", "held")
     /\ \E throws \in BOOLEAN, readThrows \in BOOLEAN :
          LET h == call[t].model
              id == call[t].expressId
              idx == call[t].argIndex
              err == move_to_arg(h, id, throws \/ BeyondArguments(id, idx))
              c == [Checked(t) EXCEPT !.eng = err.eng]
              moved == MoveToLineArgument(h, id, idx)
              decoded == GetDecodedStringArgument(moved, h)
          IN IF err.code # WEBIFC_OK
             THEN /\ Return(t, [c EXCEPT !.code = err.code])
                  /\ UNCHANGED cursor
             ELSE IF readThrows
             THEN /\ Propagate(t, [c EXCEPT
                         !.eng = @ \cup {"GetDecodedStringArgument"}])
                  /\ cursor' = moved
             ELSE IF ~Fits(decoded, call[t].maxLen)
             THEN /\ Return(t, [c EXCEPT
                         !.eng = @ \cup {"GetDecodedStringArgument"},
                         !.code = WEBIFC_ERR_INVALID_ARGUMENT])
                  /\ cursor' = Advance(moved, h)
             ELSE /\ Return(t, [c EXCEPT
                         !.eng = @ \cup {"GetDecodedStringArgument"},
                         !.code = WEBIFC_OK, !.flag = TRUE,
                         !.text = decoded, !.written = Len(decoded) + 1])
                  /\ cursor' = Advance(moved, h)
     /\ UNCHANGED <<open, lines, geomTable, transformation, deleted_lines,
                    coordination, s_buffers>>

\* the accessors of a number or a reference: null check of outValue, lock,
\* move_to_arg, then *outValue = loader->Get<Type>Argument() outside any
\* try block and with no test of the stored type
ArgumentAccessor(t, op, type, get) ==
  \/ /\ \E h \in ModelIds, id \in ExpressIds, idx \in ArgIndexes,
          ok \in BOOLEAN :
          LET c == [NewCall(op) EXCEPT
                      !.model = h, !.expressId = id, !.argIndex = idx,
                      !.argOk = ok]
          IN NullArgumentGuard(t, c, WEBIFC_ERR_INVALID_ARGUMENT)
     /\ UNCHANGED <<engineVars, g_mutex, s_buffers>>
  \/ /\ At(t, op, "held")
     /\ \E throws \in BOOLEAN, readThrows \in BOOLEAN :
          LET h == call[t].model
              id == call[t].expressId
              idx == call[t].argIndex
              err == move_to_arg(h, id, throws \/ BeyondArguments(id, idx))
              c == [Checked(t) EXCEPT !.eng = err.eng]
              moved == MoveToLineArgument(h, id, idx)
          IN IF err.code # WEBIFC_OK
             THEN /\ Return(t, [c EXCEPT !.code = err.code])
                  /\ UNCHANGED cursor
             ELSE IF readThrows
             THEN /\ Propagate(t, [c EXCEPT !.eng = @ \cup {get}])
                  /\ cursor' = moved
             ELSE /\ Return(t, [c EXCEPT
                         !.eng = @ \cup {get},
                         !.code = WEBIFC_OK, !.flag = TRUE,
                         !.value = GetArgument(moved, h, type)])
                  /\ cursor' = Advance(moved, h)
     /\ UNCHANGED <<open, lines, geomTable, transformation, deleted_lines,
                    coordination, s_buffers>>

\* --------------------------------------------------------------- geometry
StoreBuffers_shared(f, buf) == [g \in BufferOwners |-> buf]

\* function f stores into its own static s_vertices / s_indices
StoreBuffers(f, buf) == [s_buffers EXCEPT ![f] = buf]

webifc_get_flat_mesh(t) ==
  \/ /\ \E h \in ModelIds, id \in ExpressIds, ok \in BOOLEAN :
          LET c == [NewCall("webifc_get_flat_mesh") EXCEPT
                      !.model = h, !.expressId = id, !.argOk = ok]
          IN NullArgumentGuard(t, c, WEBIFC_ERR_INVALID_ARGUMENT)
     /\ UNCHANGED <<engineVars, g_mutex, s_buffers>>
  \/ /\ At(t, "webifc_get_flat_mesh", "held")
     /\ LET h == call[t].model
            f == "webifc_get_flat_mesh"
            flat == GetFlatMesh(h, call[t].expressId)
            c == [Checked(t) EXCEPT
                    !.eng = {"GetGeometryProcessor", "GetFlatMesh"}]
        IN IF ~IsModelOpen(h)
           THEN /\ Return(t, [Checked(t) EXCEPT
                                !.code = WEBIFC_ERR_INVALID_MODEL])
                /\ UNCHANGED s_buffers
           ELSE \E thr \in ThrowPoints(flat) :
                  IF thr = 1
                  THEN /\ Return(t, [c EXCEPT !.code = WEBIFC_ERR_INTERNAL])
                       /\ UNCHANGED s_buffers
                  ELSE IF thr > 1
                  THEN /\ s_buffers' =
                            StoreBuffers(f, Partial(s_buffers[f], flat, thr))
                       /\ Return(t, [c EXCEPT !.code = WEBIFC_ERR_INTERNAL,
                                       !.eng = @ \cup {"GetGeometry"}])
                  ELSE LET buf == Flatten(s_buffers[f], flat)
                       IN /\ s_buffers' = StoreBuffers(f, buf)
                          /\ Return(t, [c EXCEPT !.code = WEBIFC_OK,
                                          !.flat = flat, !.out = buf])
     /\ UNCHANGED engineVars

\* cb(id, &tempMesh, userData) is entered; owner: the thread that owns
\* g_mutex at that moment
Invoke(c, id, buf, flat) ==
  [c EXCEPT !.cbs = Append(@, [id |-> id, mesh |-> buf, flat |-> flat,
                               userData |-> c.userData, owner |-> g_mutex])]

Callback_nocount(c, id, buf, flat) == Invoke(c, id, buf, flat)

\* cb(id, &tempMesh, userData); streamed++  (the callback is a C function:
\* it returns)
Callback(c, id, buf, flat) ==
  [Invoke(c, id, buf, flat) EXCEPT !.streamed = @ + 1]

\* a callback that calls a function of the library (webifc_is_model_open):
\* the function's lock_guard locks g_mutex, which the thread owns, and that
\* is undefined behaviour of std::mutex. The lock never returns; or it
\* throws std::system_error, which leaves the callback and lands in the
\* catch (...) of the streaming function; or it does nothing, the nested
\* function runs and the callback returns
Reenter(t, c) ==
  \/ /\ pc' = [pc EXCEPT ![t] = "deadlocked"]
     /\ call' = [call EXCEPT ![t] = [c EXCEPT !.reentry = "blocked"]]
     /\ g_mutex' = g_mutex
  \/ Return(t, [c EXCEPT !.reentry = "threw", !.num = c.streamed,
                         !.caught = TRUE])
  \/ /\ call' = [call EXCEPT ![t] =
                  [c EXCEPT !.reentry = "ran", !.streamed = @ + 1]]
     /\ UNCHANGED <<pc, g_mutex>>

StreamStep_nofilter(t, f, id, thr) ==
  LET flat == GetFlatMesh(call[t].model, id)
      buf == Flatten(s_buffers[f], flat)
      c == [call[t] EXCEPT !.i = @ + 1, !.eng = @ \cup {"GetFlatMesh"}]
  IN IF thr = 1
     THEN /\ Return(t, [c EXCEPT !.num = c.streamed, !.caught = TRUE])
          /\ UNCHANGED s_buffers
     ELSE IF Len(flat) = 0
     THEN /\ call' = [call EXCEPT ![t] = c]
          /\ UNCHANGED <<pc, g_mutex, s_buffers>>
     ELSE IF thr > 1
     THEN /\ s_buffers' = StoreBuffers(f, Partial(s_buffers[f], flat, thr))
          /\ Return(t, [c EXCEPT !.num = c.streamed, !.caught = TRUE])
     ELSE /\ s_buffers' = StoreBuffers(f, buf)
          /\ UNCHANGED <<pc, g_mutex>>
          /\ call' = [call EXCEPT ![t] = Callback(c, id, buf, flat)]

StreamStep_discard(t, f, id, thr) ==
  LET flat == GetFlatMesh(call[t].model, id)
      buf == Flatten(s_buffers[f], flat)
      c == [call[t] EXCEPT !.i = @ + 1, !.eng = @ \cup {"GetFlatMesh"}]
  IN IF thr = 1
     THEN /\ Return(t, [c EXCEPT !.num = 0, !.caught = TRUE])
          /\ UNCHANGED s_buffers
     ELSE IF Len(flat) = 0
     THEN /\ call' = [call EXCEPT ![t] = c]
          /\ UNCHANGED <<pc, g_mutex, s_buffers>>
     ELSE IF thr > 1
     THEN /\ s_buffers' = StoreBuffers(f, Partial(s_buffers[f], flat, thr))
          /\ Return(t, [c EXCEPT !.num = 0, !.caught = TRUE])
     ELSE /\ s_buffers' = StoreBuffers(f, buf)
          /\ UNCHANGED <<pc, g_mutex>>
          /\ IF Len(buf.s_vertices) > 0 /\ Len(buf.s_indices) > 0
             THEN call' = [call EXCEPT ![t] = Callback(c, id, buf, flat)]
             ELSE call' = [call EXCEPT ![t] = c]

\* one iteration of the streaming loop of function f over express id `id`:
\* GetFlatMesh, skip if empty, clear and flatten, callback if both counts
\* are positive; an engine exception ends the call with the count so far
StreamStep(t, f, id, thr) ==
  LET flat == GetFlatMesh(call[t].model, id)
      buf == Flatten(s_buffers[f], flat)
      c == [call[t] EXCEPT !.i = @ + 1, !.eng = @ \cup {"GetFlatMesh"}]
  IN IF thr = 1
     THEN /\ Return(t, [c EXCEPT !.num = c.streamed, !.caught = TRUE])
          /\ UNCHANGED s_buffers
     ELSE IF Len(flat) = 0
     THEN /\ call' = [call EXCEPT ![t] = c]
          /\ UNCHANGED <<pc, g_mutex, s_buffers>>
     ELSE IF thr > 1
     THEN /\ s_buffers' = StoreBuffers(f, Partial(s_buffers[f], flat, thr))
          /\ Return(t, [c EXCEPT !.num = c.streamed, !.caught = TRUE])
     ELSE /\ s_buffers' = StoreBuffers(f, buf)
          /\ IF Len(buf.s_vertices) > 0 /\ Len(buf.s_indices) > 0
             THEN IF c.reentrant
                  THEN Reenter(t, Invoke(c, id, buf, flat))
                  ELSE /\ call' = [call EXCEPT ![t] =
                                     Callback(c, id, buf, flat)]
                       /\ UNCHANGED <<pc, g_mutex>>
             ELSE /\ call' = [call EXCEPT ![t] = c]
                  /\ UNCHANGED <<pc, g_mutex>>

webifc_stream_meshes(t) ==
  \/ /\ \E h \in ModelIds, ids \in IdLists, cb \in BOOLEAN :
          LET c == [NewCall("webifc_stream_meshes") EXCEPT !.model = h,
                      !.ids = ids, !.argOk = cb /\ Len(ids) > 0,
                      !.userData = UserData(t)]
          IN NullArgumentGuard(t, c, NoCode)
     /\ UNCHANGED <<engineVars, g_mutex, s_buffers>>
  \/ /\ At(t, "webifc_stream_meshes", "held")
     /\ IF ~IsModelOpen(call[t].model)
        THEN Return(t, Checked(t))
        ELSE /\ pc' = [pc EXCEPT ![t] = "loop"]
             /\ call' = [call EXCEPT ![t] =
                  [Checked(t) EXCEPT !.i = 1,
                                     !.eng = @ \cup {"GetGeometryProcessor"}]]
             /\ UNCHANGED g_mutex
     /\ UNCHANGED <<engineVars, s_buffers>>
  \/ /\ At(t, "webifc_stream_meshes", "loop")
     /\ IF call[t].i > Len(call[t].ids)
        THEN /\ Return(t, [call[t] EXCEPT !.num = call[t].streamed])
             /\ UNCHANGED s_buffers
        ELSE LET id == call[t].ids[call[t].i]
             IN \E thr \in ThrowPoints(GetFlatMesh(call[t].model, id)) :
                  StreamStep(t, "webifc_stream_meshes", id, thr)
     /\ UNCHANGED engineVars

webifc_stream_meshes_with_types(t) ==
  \/ /\ \E h \in ModelIds, types \in TypeLists, cb \in BOOLEAN :
          LET c == [NewCall("webifc_stream_meshes_with_types") EXCEPT
                      !.model = h, !.types = types,
                      !.argOk = cb /\ Len(types) > 0,
                      !.userData = UserData(t)]
          IN NullArgumentGuard(t, c, NoCode)
     /\ UNCHANGED <<engineVars, g_mutex, s_buffers>>
  \/ /\ At(t, "webifc_stream_meshes_with_types", "held")
     /\ IF ~IsModelOpen(call[t].model)
        THEN Return(t, Checked(t))
        ELSE \E throws \in BOOLEAN :
               LET ids == IdsWithTypes(call[t].model, call[t].types, 1)
                   c == [Checked(t) EXCEPT
                           !.eng = @ \cup {"GetIfcLoader",
                                           "GetGeometryProcessor",
                                           "GetExpressIDsWithType"}]
               IN IF throws
                  THEN Return(t, [c EXCEPT !.caught = TRUE])
                  ELSE IF Len(ids) = 0
                  THEN Return(t, [c EXCEPT !.ids = ids])
                  ELSE Relock(t, [c EXCEPT !.ids = ids],
                              "webifc_stream_meshes")
     /\ UNCHANGED <<engineVars, s_buffers>>

\* types.erase(remove_if(...)) of webifc_stream_all_meshes
RECURSIVE RemoveOpeningsAndSpaces(_, _)
RemoveOpeningsAndSpaces(types, k) ==
  IF k > Len(types) THEN <<>>
  ELSE (IF types[k] \in {IFCOPENINGELEMENT, IFCSPACE, IFCOPENINGSTANDARDCASE}
        THEN <<>> ELSE <<types[k]>>)
       \o RemoveOpeningsAndSpaces(types, k + 1)

webifc_stream_all_meshes(t) ==
  \/ /\ \E h \in ModelIds, skip \in BOOLEAN, cb \in BOOLEAN :
          LET c == [NewCall("webifc_stream_all_meshes") EXCEPT
                      !.model = h, !.skip = skip, !.argOk = cb,
                      !.userData = UserData(t)]
          IN NullArgumentGuard(t, c, NoCode)
     /\ UNCHANGED <<engineVars, g_mutex, s_buffers>>
  \/ /\ At(t, "webifc_stream_all_meshes", "held")
     /\ IF ~IsModelOpen(call[t].model)
        THEN Return(t, Checked(t))
        ELSE \E throws \in BOOLEAN :
               LET types == IF call[t].skip
                            THEN RemoveOpeningsAndSpaces(GetIfcElementList, 1)
                            ELSE GetIfcElementList
                   c == [Checked(t) EXCEPT
                           !.eng = {"GetIfcLoader", "GetGeometryProcessor",
                                    "GetIfcElementList"}]
               IN IF throws
                  THEN Return(t, [c EXCEPT !.caught = TRUE])
                  ELSE IF Len(types) = 0
                  THEN Return(t, [c EXCEPT !.types = types])
                  ELSE Relock(t, [c EXCEPT !.types = types],
                              "webifc_stream_meshes_with_types")
     /\ UNCHANGED <<engineVars, s_buffers>>

webifc_stream_all_flat_meshes(t) ==
  \/ /\ \E h \in ModelIds, cb \in BOOLEAN :
          LET c == [NewCall("webifc_stream_all_flat_meshes") EXCEPT
                      !.model = h, !.argOk = cb, !.userData = UserData(t)]
          IN NullArgumentGuard(t, c, NoCode)
     /\ UNCHANGED <<engineVars, g_mutex, s_buffers>>
  \/ /\ At(t, "webifc_stream_all_flat_meshes", "held")
     /\ IF ~IsModelOpen(call[t].model)
        THEN Return(t, Checked(t))
        ELSE \E throws \in BOOLEAN :
               LET c == [Checked(t) EXCEPT !.i = 1,
                           !.eng = {"GetGeometryProcessor", "GetIfcLoader",
                                    "GetMaxExpressId"}]
               IN IF throws
                  THEN Return(t, [c EXCEPT !.caught = TRUE])
                  ELSE /\ pc' = [pc EXCEPT ![t] = "loop"]
                       /\ call' = [call EXCEPT ![t] = c]
                       /\ UNCHANGED g_mutex
     /\ UNCHANGED <<engineVars, s_buffers>>
  \/ /\ At(t, "webifc_stream_all_flat_meshes", "loop")
     /\ LET id == call[t].i IN
        IF id > GetMaxExpressId(call[t].model)
        THEN /\ Return(t, [call[t] EXCEPT !.num = call[t].streamed])
             /\ UNCHANGED s_buffers
        ELSE IF id \notin lines[call[t].model]
        THEN /\ call' = [call EXCEPT ![t].i = @ + 1]
             /\ UNCHANGED <<pc, g_mutex, s_buffers>>
        ELSE \E thr \in ThrowPoints(GetFlatMesh(call[t].model, id)) :
               StreamStep(t, "webifc_stream_all_flat_meshes", id, thr)
     /\ UNCHANGED engineVars

Next ==
  \E t \in Callers :
    \/ lock_guard(t)
    \/ webifc_create_model(t)
    \/ webifc_is_model_open(t)
    \/ webifc_close_model(t)
    \/ webifc_close_all_models(t)
    \/ webifc_load_step_from_memory(t)
    \/ webifc_get_line_type(t)
    \/ webifc_get_flat_mesh(t)
    \/ webifc_stream_meshes(t)
    \/ webifc_stream_meshes_with_types(t)
    \/ webifc_stream_all_meshes(t)
    \/ webifc_stream_all_flat_meshes(t)

Spec == Init /\ [][Next]_vars

\* ------------------------------------------- ifc_api_ functions and helpers
\* These functions take no lock: a call enters the manager ("engine") and
\* leaves it in a later step, and nothing keeps a second thread out.

\* positions of an unlocked call inside the manager
InManager == {"engine", "loading"}

\* the call writes to the manager, to a loader or to the IfcAPI maps
Writes(c) ==
  \/ c.fn \in {"CreateModel", "OpenModel", "CloseModel", "ifc_api_delete_line"}
  \/ c.fn = "ifc_api_set_geometry_transformation" /\ IsModelOpen(c.model)
  \/ c.fn = "GetLine" /\ IsModelOpen(c.model) /\ c.expressId \in lines[c.model]

\* the unlocked call returns
Done(t, c) ==
  /\ pc' = [pc EXCEPT ![t] = "idle"]
  /\ call' = [call EXCEPT ![t] = c]

\* int CreateModel(manager, settings)
CreateModel(t) ==
  \/ /\ CanCreate("CreateModel")
     /\ Start(t, NewCall("CreateModel"), "engine")
     /\ UNCHANGED <<engineVars, g_mutex, s_buffers>>
  \/ /\ At(t, "CreateModel", "engine")
     /\ \E h \in ModelIds \ open :
          /\ ManagerCreateModel(h)
          /\ Done(t, [call[t] EXCEPT !.num = h, !.model = h,
                                     !.eng = {"CreateModel"}])
     /\ UNCHANGED <<geomTable, deleted_lines, cursor, g_mutex, s_buffers>>

\* uint32_t OpenModel(manager, settings, callback): CreateModel, then
\* GetIfcLoader(modelID)->LoadFile(callback); if the model was closed in
\* between, the loader pointer is null and the call is undefined behaviour;
\* an exception of LoadFile (input it cannot read) leaves the function, which
\* has no try block, and the model CreateModel made stays in the registry
OpenModel(t) ==
  \/ /\ CanCreate("OpenModel")
     /\ Start(t, NewCall("OpenModel"), "engine")
     /\ UNCHANGED <<engineVars, g_mutex, s_buffers>>
  \/ /\ At(t, "OpenModel", "engine")
     /\ \E h \in ModelIds \ open :
          /\ ManagerCreateModel(h)
          /\ pc' = [pc EXCEPT ![t] = "loading"]
          /\ call' = [call EXCEPT ![t] =
                       [call[t] EXCEPT !.num = h, !.model = h,
                                       !.eng = {"CreateModel"}]]
     /\ UNCHANGED <<geomTable, deleted_lines, cursor, g_mutex, s_buffers>>
  \/ /\ At(t, "OpenModel", "loading")
     /\ LET h == call[t].model
            c == [Checked(t) EXCEPT !.eng = @ \cup {"GetIfcLoader", "LoadFile"}]
        IN IF IsModelOpen(h)
           THEN \E throws \in BOOLEAN :
                  IF throws
                  THEN /\ UNCHANGED lines
                       /\ Done(t, [c EXCEPT !.fault = TRUE])
                  ELSE /\ lines' = [lines EXCEPT ![h] = ExpressIds]
                       /\ Done(t, c)
           ELSE /\ pc' = [u \in Threads |-> "crashed"]
                /\ UNCHANGED <<lines, call>>
     /\ UNCHANGED <<open, geomTable, transformation, deleted_lines, cursor,
                    coordination, g_mutex,
                    s_buffers>>

\* the value the callers of ifc_api_open_model take for "no model"
InvalidModelId == -1

\* sizes of the buffers the callers open: empty, or holding the file
BufferLengths == {0, MaxExpressId}

\* what a caller may find in the return register of a function that ran
\* past its end
Indeterminate == {InvalidModelId} \cup ModelIds

\* uint32_t ifc_api_open_model(api, data, settings): a stub that tests its
\* api argument and then runs past its end without a return statement, which
\* is undefined behaviour: the caller reads an indeterminate value, or the
\* process stops
ifc_api_open_model(t) ==
  /\ pc[t] = "idle"
  /\ \E len \in BufferLengths :
       LET c == [NewCall("ifc_api_open_model") EXCEPT !.length = len]
       IN \/ \E v \in Indeterminate : Done(t, [c EXCEPT !.num = v])
          \/ /\ pc' = [u \in Threads |-> "crashed"]
             /\ call' = [call EXCEPT ![t] = c]
  /\ UNCHANGED <<engineVars, g_mutex, s_buffers>>

\* void CloseModel(manager, modelID)
CloseModel(t) ==
  \/ /\ \E h \in ModelIds :
          Start(t, [NewCall("CloseModel") EXCEPT !.model = h], "engine")
     /\ UNCHANGED <<engineVars, g_mutex, s_buffers>>
  \/ /\ At(t, "CloseModel", "engine")
     /\ ManagerCloseModel(call[t].model)
     /\ Done(t, [call[t] EXCEPT !.eng = {"CloseModel"}])
     /\ UNCHANGED <<geomTable, deleted_lines, cursor, g_mutex, s_buffers>>

\* json GetLine(manager, modelID, expressID): the loader is fetched before
\* the handle is checked
GetLine(t) ==
  \/ /\ \E h \in ModelIds, id \in ApiIds :
          Start(t, [NewCall("GetLine") EXCEPT !.model = h, !.expressId = id],
                "engine")
     /\ UNCHANGED <<engineVars, g_mutex, s_buffers>>
  \/ /\ At(t, "GetLine", "engine")
     /\ LET h == call[t].model
            c == [Checked(t) EXCEPT !.eng = {"GetIfcLoader"}]
        IN IF ~IsModelOpen(h)
           THEN Done(t, c)
           ELSE IF call[t].expressId \notin lines[h]
           THEN Done(t, [c EXCEPT !.eng = @ \cup {"IsValidExpressID"}])
           ELSE Done(t, [c EXCEPT !.flag = TRUE,
                           !.eng = @ \cup {"IsValidExpressID", "GetLineType",
                                           "MoveToArgumentOffset", "GetArgs"}])
     /\ UNCHANGED <<engineVars, g_mutex, s_buffers>>

\* void ifc_api_delete_line(api, model_id, expressID)
ifc_api_delete_line(t) ==
  \/ /\ \E h \in ModelIds, id \in ApiIds :
          Start(t, [NewCall("ifc_api_delete_line") EXCEPT
                      !.model = h, !.expressId = id], "engine")
     /\ UNCHANGED <<engineVars, g_mutex, s_buffers>>
  \/ /\ At(t, "ifc_api_delete_line", "engine")
     /\ LET h == call[t].model
            id == call[t].expressId
        IN /\ IF IsModelOpen(h)
              THEN /\ lines' = [lines EXCEPT ![h] = @ \ {id}]
                   /\ Done(t, [Checked(t) EXCEPT
                                 !.eng = {"GetIfcLoader", "RemoveLine"}])
              ELSE /\ UNCHANGED lines
                   /\ Done(t, Checked(t))
           /\ deleted_lines' = [deleted_lines EXCEPT ![h] = @ \cup {id}]
     /\ UNCHANGED <<open, geomTable, transformation, cursor, coordination,
                    g_mutex, s_buffers>>

\* void ifc_api_set_geometry_transformation(api, model_id, matrix)
ifc_api_set_geometry_transformation(t) ==
  \/ /\ \E h \in ModelIds, m \in Matrices, ok \in BOOLEAN :
          LET c == [NewCall("ifc_api_set_geometry_transformation") EXCEPT
                      !.model = h, !.m = m, !.argOk = ok]
          IN Start(t, c, IF ok THEN "engine" ELSE "idle")
     /\ UNCHANGED <<engineVars, g_mutex, s_buffers>>
  \/ /\ At(t, "ifc_api_set_geometry_transformation", "engine")
     /\ LET h == call[t].model
        IN IF IsModelOpen(h)
           THEN /\ transformation' = [transformation EXCEPT ![h] = call[t].m]
                /\ Done(t, [Checked(t) EXCEPT
                              !.eng = {"GetGeometryProcessor",
                                       "SetTransformation"}])
           ELSE /\ UNCHANGED transformation
                /\ Done(t, Checked(t))
     /\ UNCHANGED <<open, lines, geomTable, deleted_lines, cursor,
                    coordination, g_mutex, s_buffers>>

\* two calls are inside the manager at once and one of them writes: a data
\* race, which is undefined behaviour; besides the interleavings above, the
\* process may stop
DataRace(t) ==
  /\ pc[t] \in InManager
  /\ \E u \in Threads \ {t} :
       pc[u] \in InManager /\ (Writes(call[t]) \/ Writes(call[u]))
  /\ pc' = [u \in Threads |-> "crashed"]
  /\ UNCHANGED <<engineVars, g_mutex, call, s_buffers>>

NextApi ==
  \E t \in Threads :
    \/ CreateModel(t)
    \/ OpenModel(t)
    \/ ifc_api_open_model(t)
    \/ CloseModel(t)
    \/ GetLine(t)
    \/ ifc_api_delete_line(t)
    \/ ifc_api_set_geometry_transformation(t)
    \/ DataRace(t)

SpecApi == Init /\ [][NextApi]_vars

\* ------------------------------ single-element request over every flat mesh
\* model 0 is open and loaded, and line 1 has any of the bounded flat meshes
InitFlat ==
  /\ open = {0}
  /\ lines = [h \in Handles |-> IF h = 0 THEN ExpressIds ELSE {}]
  /\ geomTable \in {[FileGeometry EXCEPT ![1] = f] : f \in FlatMeshes}
  /\ g_mutex = NoThread
  /\ pc = [t \in Threads |-> "idle"]
  /\ call = [t \in Threads |-> NoCall]
  /\ s_buffers = [f \in BufferOwners |-> EmptyBuffers]
  /\ transformation = [h \in Handles |-> Identity]
  /\ deleted_lines = [h \in Handles |-> {}]
  /\ cursor = [h \in Handles |-> NoPosition]
  /\ coordination = [h \in Handles |-> Identity]

NextFlat ==
  \E t \in Callers :
    \/ lock_guard(t)
    \/ webifc_get_flat_mesh(t)

SpecFlat == InitFlat /\ [][NextFlat]_vars

\* ------------------------------ streaming by identifiers over every flat mesh
NextStream ==
  \E t \in Callers :
    \/ lock_guard(t)
    \/ webifc_stream_meshes(t)

SpecStream == InitFlat /\ [][NextStream]_vars

\* --------------------------------------- a callback that calls the library
\* a streaming call whose callback calls back into the library
StartReentrantStream(t) ==
  /\ \E h \in ModelIds, ids \in IdLists,
        op \in {"webifc_stream_meshes", "webifc_stream_all_flat_meshes"} :
       Start(t, [NewCall(op) EXCEPT !.model = h, !.ids = ids,
                                    !.userData = UserData(t),
                                    !.reentrant = TRUE], "lock")
  /\ UNCHANGED <<engineVars, g_mutex, s_buffers>>

\* model 0 is open and loaded with the file
InitLoaded ==
  /\ open = {0}
  /\ lines = [h \in Handles |-> IF h = 0 THEN ExpressIds ELSE {}]
  /\ geomTable = FileGeometry
  /\ g_mutex = NoThread
  /\ pc = [t \in Threads |-> "idle"]
  /\ call = [t \in Threads |-> NoCall]
  /\ s_buffers = [f \in BufferOwners |-> EmptyBuffers]
  /\ transformation = [h \in Handles |-> Identity]
  /\ deleted_lines = [h \in Handles |-> {}]
  /\ cursor = [h \in Handles |-> NoPosition]
  /\ coordination = [h \in Handles |-> Identity]

NextReentrant ==
  \E t \in Callers :
    \/ lock_guard(t)
    \/ StartReentrantStream(t)
    \/ webifc_stream_meshes(t)
    \/ webifc_stream_all_flat_meshes(t)

SpecReentrant == InitLoaded /\ [][NextReentrant]_vars

\* ------------------------------------------------------- buffer transfer
\* bytes: the terminator, two other values, and the content of a cell that
\* nothing has written
NUL == "NUL"
Bytes == {NUL, "a", "b"}
Unwritten == "?"

\* every payload of at most MaxText bytes
Payloads == UNION {[1 .. n -> Bytes] : n \in 0 .. MaxText}

\* a null destination, and a destination of n cells
NullPtr == [null |-> TRUE, cells |-> <<>>]
Buffer(n) == [null |-> FALSE, cells |-> [k \in 1 .. n |-> Unwritten]]

\* std::memcpy(out, src, n)
memcpy(cells, src, n) ==
  [k \in 1 .. Len(cells) |-> IF k <= n THEN src[k] ELSE cells[k]]

ffi_strdup_counts_nul(s_, out) ==
  LET n == Len(s_)
  IN IF out.null THEN [ret |-> n, out |-> out]
     ELSE [ret |-> n + 1,
           out |-> [out EXCEPT !.cells =
                      [memcpy(@, s_, n) EXCEPT ![n + 1] = NUL]]]

\* std::size_t ffi_strdup(const std::string& s, char* out): the payload
\* length; with a destination, the payload and a terminator are written
ffi_strdup(s_, out) ==
  LET n == Len(s_)
  IN IF out.null THEN [ret |-> n, out |-> out]
     ELSE [ret |-> n,
           out |-> [out EXCEPT !.cells =
                      [memcpy(@, s_, n) EXCEPT ![n + 1] = NUL]]]

\* std::size_t ffi_strdup(const void* src, std::size_t len, void* out)
ffi_strdup_bytes(src, len, out) ==
  IF out.null THEN [ret |-> len, out |-> out]
  ELSE [ret |-> len, out |-> [out EXCEPT !.cells = memcpy(@, src, len)]]

\* a caller transfers a text payload: the preflight call with a null
\* destination, then the fill call with a destination sized from the
\* preflight result (payload and terminator, and possibly room to spare)
TransferText(t) ==
  \/ /\ \E P \in Payloads :
          LET r == ffi_strdup(P, NullPtr)
          IN Start(t, [NewCall("ffi_strdup") EXCEPT
                         !.payload = P, !.need = r.ret, !.dest = r.out],
                   "sized")
     /\ UNCHANGED <<engineVars, g_mutex, s_buffers>>
  \/ /\ At(t, "ffi_strdup", "sized")
     /\ \E spare \in 0 .. 1 :
          LET r == ffi_strdup(call[t].payload,
                              Buffer(call[t].need + 1 + spare))
          IN Done(t, [call[t] EXCEPT !.num = r.ret, !.dest = r.out])
     /\ UNCHANGED <<engineVars, g_mutex, s_buffers>>

\* the same for a raw-byte payload, which has no terminator
TransferBytes(t) ==
  \/ /\ \E P \in Payloads :
          LET r == ffi_strdup_bytes(P, Len(P), NullPtr)
          IN Start(t, [NewCall("ffi_strdup_bytes") EXCEPT
                         !.payload = P, !.need = r.ret, !.dest = r.out],
                   "sized")
     /\ UNCHANGED <<engineVars, g_mutex, s_buffers>>
  \/ /\ At(t, "ffi_strdup_bytes", "sized")
     /\ \E spare \in 0 .. 1 :
          LET P == call[t].payload
              r == ffi_strdup_bytes(P, Len(P), Buffer(call[t].need + spare))
          IN Done(t, [call[t] EXCEPT !.num = r.ret, !.dest = r.out])
     /\ UNCHANGED <<engineVars, g_mutex, s_buffers>>

\* ------------------------------------------ auto-allocating transfer
\* sizeof(T) of the element type of the arrays and vectors, and its values
SizeofT == 2
Elems == [1 .. SizeofT -> {NUL, "a"}]

\* every array or vector of at most MaxElems elements
Arrays == UNION {[1 .. n -> Elems] : n \in 0 .. MaxElems}

\* src.data(): the elements as one block of bytes
RECURSIVE data(_)
data(vec) == IF vec = <<>> THEN <<>> ELSE Head(vec) \o data(Tail(vec))

\* std::malloc(n): storage of n bytes, or null when there is none
malloc(n, oom) == IF oom THEN NullPtr ELSE Buffer(n)

\* a T** destination: null, or pointing to the caller's pointer inner
NullOut == [null |-> TRUE, inner |-> NullPtr]
OutParam(inner) == [null |-> FALSE, inner |-> inner]

\* the destinations a caller passes for a payload of need bytes: null,
\* pointing to a null pointer, or pointing to storage of the caller's own
\* that holds the payload and possibly more
OutParams(need) ==
  {NullOut, OutParam(NullPtr)} \cup {OutParam(Buffer(need + k)) : k \in 0 .. 1}

ffi_strdup_auto_noempty(s_, out, oom) ==
  LET n == Len(s_)
  IN IF out.null THEN [ret |-> n, out |-> out, mallocs |-> 0, allocs |-> 0]
     ELSE IF out.inner.null /\ n = 0
     THEN [ret |-> 0, out |-> out, mallocs |-> 0, allocs |-> 0]
     ELSE LET p == IF out.inner.null THEN malloc(n + 1, oom) ELSE out.inner
              m == IF out.inner.null THEN 1 ELSE 0
          IN IF p.null
             THEN [ret |-> 0, out |-> out, mallocs |-> m, allocs |-> 0]
             ELSE [ret |-> n,
                   out |-> [out EXCEPT !.inner =
                              [p EXCEPT !.cells =
                                 [memcpy(@, s_, n) EXCEPT ![n + 1] = NUL]]],
                   mallocs |-> m, allocs |-> m]

\* std::size_t ffi_strdup(const std::string& s, char** out)
ffi_strdup_auto(s_, out, oom) ==
  LET n == Len(s_)
  IN IF out.null THEN [ret |-> n, out |-> out, mallocs |-> 0, allocs |-> 0]
     ELSE LET p == IF out.inner.null THEN malloc(n + 1, oom) ELSE out.inner
              m == IF out.inner.null THEN 1 ELSE 0
          IN IF p.null
             THEN [ret |-> 0, out |-> out, mallocs |-> m, allocs |-> 0]
             ELSE [ret |-> n,
                   out |-> [out EXCEPT !.inner =
                              [p EXCEPT !.cells =
                                 [memcpy(@, s_, n) EXCEPT ![n + 1] = NUL]]],
                   mallocs |-> m, allocs |-> m]

ffi_memdup_oom_len(src, len, out, oom) ==
  IF out.null THEN [ret |-> len, out |-> out, mallocs |-> 0, allocs |-> 0]
  ELSE IF out.inner.null /\ len = 0
  THEN [ret |-> 0, out |-> out, mallocs |-> 0, allocs |-> 0]
  ELSE LET p == IF out.inner.null THEN malloc(len, oom) ELSE out.inner
           m == IF out.inner.null THEN 1 ELSE 0
       IN IF p.null
          THEN [ret |-> len, out |-> out, mallocs |-> m, allocs |-> 0]
          ELSE [ret |-> len,
                out |-> [out EXCEPT !.inner =
                           [p EXCEPT !.cells = memcpy(@, src, len)]],
                mallocs |-> m, allocs |-> m]

\* std::size_t ffi_memdup(const void* src, std::size_t len, void** out)
ffi_memdup(src, len, out, oom) ==
  IF out.null THEN [ret |-> len, out |-> out, mallocs |-> 0, allocs |-> 0]
  ELSE IF out.inner.null /\ len = 0
  THEN [ret |-> 0, out |-> out, mallocs |-> 0, allocs |-> 0]
  ELSE LET p == IF out.inner.null THEN malloc(len, oom) ELSE out.inner
           m == IF out.inner.null THEN 1 ELSE 0
       IN IF p.null
          THEN [ret |-> 0, out |-> out, mallocs |-> m, allocs |-> 0]
          ELSE [ret |-> len,
                out |-> [out EXCEPT !.inner =
                           [p EXCEPT !.cells = memcpy(@, src, len)]],
                mallocs |-> m, allocs |-> m]

\* std::size_t ffi_arrdup(const std::array<T, N>& src, T** out)
ffi_arrdup(src, out, oom) ==
  LET N == Len(src)
      bytes == SizeofT * N
  IN IF out.null THEN [ret |-> bytes, out |-> out, mallocs |-> 0, allocs |-> 0]
     ELSE IF out.inner.null /\ N = 0
     THEN [ret |-> 0, out |-> out, mallocs |-> 0, allocs |-> 0]
     ELSE LET p == IF out.inner.null THEN malloc(bytes, oom) ELSE out.inner
              m == IF out.inner.null THEN 1 ELSE 0
          IN IF p.null
             THEN [ret |-> 0, out |-> out, mallocs |-> m, allocs |-> 0]
             ELSE [ret |-> bytes,
                   out |-> [out EXCEPT !.inner =
                              [p EXCEPT !.cells =
                                 IF N > 0 THEN memcpy(@, data(src), bytes)
                                 ELSE @]],
                   mallocs |-> m, allocs |-> m]

ffi_vecdup_malloc0(vec, out, oom) ==
  LET bytes == SizeofT * Len(vec)
  IN IF out.null THEN [ret |-> bytes, out |-> out, mallocs |-> 0, allocs |-> 0]
     ELSE LET p == IF out.inner.null THEN malloc(bytes, oom) ELSE out.inner
              m == IF out.inner.null THEN 1 ELSE 0
          IN IF p.null
             THEN [ret |-> 0, out |-> out, mallocs |-> m, allocs |-> 0]
             ELSE [ret |-> bytes,
                   out |-> [out EXCEPT !.inner =
                              [p EXCEPT !.cells =
                                 memcpy(@, data(vec), bytes)]],
                   mallocs |-> m, allocs |-> m]

\* std::size_t ffi_vecdup(const std::vector<T>& vec, T** out)
ffi_vecdup(vec, out, oom) ==
  LET bytes == SizeofT * Len(vec)
  IN IF out.null THEN [ret |-> bytes, out |-> out, mallocs |-> 0, allocs |-> 0]
     ELSE IF out.inner.null /\ bytes = 0
     THEN [ret |-> 0, out |-> out, mallocs |-> 0, allocs |-> 0]
     ELSE LET p == IF out.inner.null THEN malloc(bytes, oom) ELSE out.inner
              m == IF out.inner.null THEN 1 ELSE 0
          IN IF p.null
             THEN [ret |-> 0, out |-> out, mallocs |-> m, allocs |-> 0]
             ELSE [ret |-> bytes,
                   out |-> [out EXCEPT !.inner =
                              [p EXCEPT !.cells =
                                 IF bytes > 0 THEN memcpy(@, data(vec), bytes)
                                 ELSE @]],
                   mallocs |-> m, allocs |-> m]

\* the call record of an auto-allocating transfer that returned r
Transferred(op, P, out, r) ==
  [NewCall(op) EXCEPT
     !.payload = P, !.outNull = out.null, !.inner0 = out.inner,
     !.num = r.ret, !.dest = r.out.inner,
     !.mallocs = r.mallocs, !.allocs = r.allocs]

\* a caller transfers a text payload with the auto-allocating function
AutoText(t) ==
  /\ pc[t] = "idle"
  /\ \E P \in Payloads, oom \in BOOLEAN :
       \E out \in OutParams(Len(P) + 1) :
         Done(t, Transferred("ffi_strdup_auto", P, out,
                             ffi_strdup_auto(P, out, oom)))
  /\ UNCHANGED <<engineVars, g_mutex, s_buffers>>

\* the same for raw bytes
AutoBytes(t) ==
  /\ pc[t] = "idle"
  /\ \E P \in Payloads, oom \in BOOLEAN :
       \E out \in OutParams(Len(P)) :
         Done(t, Transferred("ffi_memdup", P, out,
                             ffi_memdup(P, Len(P), out, oom)))
  /\ UNCHANGED <<engineVars, g_mutex, s_buffers>>

\* the same for a fixed-size array of elements
AutoArray(t) ==
  /\ pc[t] = "idle"
  /\ \E A \in Arrays, oom \in BOOLEAN :
       \E out \in OutParams(SizeofT * Len(A)) :
         Done(t, Transferred("ffi_arrdup", data(A), out,
                             ffi_arrdup(A, out, oom)))
  /\ UNCHANGED <<engineVars, g_mutex, s_buffers>>

\* the same for a vector of elements
AutoVector(t) ==
  /\ pc[t] = "idle"
  /\ \E A \in Arrays, oom \in BOOLEAN :
       \E out \in OutParams(SizeofT * Len(A)) :
         Done(t, Transferred("ffi_vecdup", data(A), out,
                             ffi_vecdup(A, out, oom)))
  /\ UNCHANGED <<engineVars, g_mutex, s_buffers>>

NextAlloc ==
  \E t \in Callers :
    \/ AutoText(t)
    \/ AutoBytes(t)
    \/ AutoArray(t)
    \/ AutoVector(t)

SpecAlloc == Init /\ [][NextAlloc]_vars

NextTransfer ==
  \E t \in Callers :
    \/ TransferText(t)
    \/ TransferBytes(t)

SpecTransfer == Init /\ [][NextTransfer]_vars

\* ------------------------------------------------------ lines of a model
\* loader->IsValidExpressID(expressId)
IsValidExpressID(h, id) == id \in lines[h]

\* loader->RemoveLine(expressId)
RemoveLine(h, id) == lines' = [lines EXCEPT ![h] = @ \ {id}]

\* bool webifc_validate_express_id(model, expressId)
webifc_validate_express_id(t) ==
  \/ /\ \E h \in ModelIds, id \in ExpressIds :
          Start(t, [NewCall("webifc_validate_express_id") EXCEPT
                      !.model = h, !.expressId = id], "lock")
     /\ UNCHANGED <<engineVars, g_mutex, s_buffers>>
  \/ /\ At(t, "webifc_validate_express_id", "held")
     /\ IF ~IsModelOpen(call[t].model)
        THEN Return(t, Checked(t))
        ELSE Return(t, [Checked(t) EXCEPT
                          !.eng = {"GetIfcLoader", "IsValidExpressID"},
                          !.flag = IsValidExpressID(call[t].model,
                                                    call[t].expressId)])
     /\ UNCHANGED <<engineVars, s_buffers>>

webifc_remove_line_keep(t) ==
  \/ /\ \E h \in ModelIds, id \in ExpressIds :
          Start(t, [NewCall("webifc_remove_line") EXCEPT
                      !.model = h, !.expressId = id], "lock")
     /\ UNCHANGED <<engineVars, g_mutex, s_buffers>>
  \/ /\ At(t, "webifc_remove_line", "held")
     /\ Return(t, Checked(t))
     /\ UNCHANGED <<engineVars, s_buffers>>

\* void webifc_remove_line(model, expressId); an exception of RemoveLine,
\* taken here for an identifier that is no line of the model, is swallowed
webifc_remove_line(t) ==
  \/ /\ \E h \in ModelIds, id \in ExpressIds :
          Start(t, [NewCall("webifc_remove_line") EXCEPT
                      !.model = h, !.expressId = id], "lock")
     /\ UNCHANGED <<engineVars, g_mutex, s_buffers>>
  \/ /\ At(t, "webifc_remove_line", "held")
     /\ LET h == call[t].model
            id == call[t].expressId
        IN IF ~IsModelOpen(h)
           THEN /\ Return(t, Checked(t))
                /\ UNCHANGED lines
           ELSE \E throws \in BOOLEAN :
                  LET c == [Checked(t) EXCEPT
                              !.eng = {"GetIfcLoader", "RemoveLine"}]
                  IN IF throws /\ ~IsValidExpressID(h, id)
                     THEN /\ Return(t, [c EXCEPT !.caught = TRUE])
                          /\ UNCHANGED lines
                     ELSE /\ Return(t, c)
                          /\ RemoveLine(h, id)
     /\ UNCHANGED <<open, geomTable, s_buffers, transformation,
                    deleted_lines, cursor, coordination>>

webifc_reset_cache_closes(t) ==
  \/ /\ \E h \in ModelIds :
          Start(t, [NewCall("webifc_reset_cache") EXCEPT !.model = h], "lock")
     /\ UNCHANGED <<engineVars, g_mutex, s_buffers>>
  \/ /\ At(t, "webifc_reset_cache", "held")
     /\ ManagerCloseModel(call[t].model)
     /\ Return(t, [Checked(t) EXCEPT
                     !.eng = {"GetGeometryProcessor", "ResetCache"}])
     /\ UNCHANGED <<geomTable, s_buffers, deleted_lines, cursor>>

\* void webifc_reset_cache(model): the loader's ResetCache drops cached
\* geometry, which is no part of the registry, the lines or the placed
\* geometries; its exception is swallowed
webifc_reset_cache(t) ==
  \/ /\ \E h \in ModelIds :
          Start(t, [NewCall("webifc_reset_cache") EXCEPT !.model = h], "lock")
     /\ UNCHANGED <<engineVars, g_mutex, s_buffers>>
  \/ /\ At(t, "webifc_reset_cache", "held")
     /\ IF ~IsModelOpen(call[t].model)
        THEN Return(t, Checked(t))
        ELSE \E throws \in BOOLEAN :
               Return(t, [Checked(t) EXCEPT
                            !.eng = {"GetGeometryProcessor", "ResetCache"},
                            !.caught = throws])
     /\ UNCHANGED <<engineVars, s_buffers>>

\* WebIFC_ErrorCode webifc_get_double_argument(model, expressId, argIndex,
\* outValue)
webifc_get_double_argument(t) ==
  ArgumentAccessor(t, "webifc_get_double_argument", RealToken,
                   "GetDoubleArgument")

\* WebIFC_ErrorCode webifc_get_int_argument(model, expressId, argIndex,
\* outValue)
webifc_get_int_argument(t) ==
  ArgumentAccessor(t, "webifc_get_int_argument", IntegerToken, "GetIntArgument")

\* WebIFC_ErrorCode webifc_get_ref_argument(model, expressId, argIndex,
\* outValue)
webifc_get_ref_argument(t) ==
  ArgumentAccessor(t, "webifc_get_ref_argument", RefToken, "GetRefArgument")

\* a loaded model that one caller reads, strips of lines and closes
NextAccess ==
  \E t \in Callers :
    \/ lock_guard(t)
    \/ webifc_close_model(t)
    \/ webifc_remove_line(t)
    \/ webifc_validate_express_id(t)
    \/ webifc_get_double_argument(t)

SpecAccess == InitLoaded /\ [][NextAccess]_vars

\* a loaded model whose lines two threads remove and test
NextLines ==
  \E t \in Threads :
    \/ lock_guard(t)
    \/ webifc_remove_line(t)
    \/ webifc_validate_express_id(t)
    \/ webifc_close_model(t)

SpecLines == InitLoaded /\ [][NextLines]_vars

\* ------------------------------------------------- text encode / decode
\* characters: backslash, newline, the letter n and another control
\* character
BSL == "BSL"
LF == "LF"
Chars == {BSL, LF, "n", "TAB"}

\* every C string of at most MaxChars characters
Texts == UNION {[1 .. n -> Chars] : n \in 0 .. MaxChars}

Escaped_newline_only(sv) ==
  LET RECURSIVE loop(_)
      loop(k) ==
        IF k > Len(sv) THEN <<>>
        ELSE (IF sv[k] = LF THEN <<BSL, "n">> ELSE <<sv[k]>>) \o loop(k + 1)
  IN loop(1)

\* the loop of webifc_encode_text: backslash and newline are escaped
Escaped(sv) ==
  LET RECURSIVE loop(_)
      loop(k) ==
        IF k > Len(sv) THEN <<>>
        ELSE (IF sv[k] = BSL THEN <<BSL, BSL>>
              ELSE IF sv[k] = LF THEN <<BSL, "n">>
              ELSE <<sv[k]>>) \o loop(k + 1)
  IN loop(1)

\* the loop of webifc_decode_text: a backslash that is followed by n or
\* by a backslash is read as one character, every other character as itself
Unescaped(sv) ==
  LET RECURSIVE loop(_)
      loop(k) ==
        IF k > Len(sv) THEN <<>>
        ELSE IF sv[k] = BSL /\ k + 1 <= Len(sv) /\ sv[k + 1] = "n"
        THEN <<LF>> \o loop(k + 2)
        ELSE IF sv[k] = BSL /\ k + 1 <= Len(sv) /\ sv[k + 1] = BSL
        THEN <<BSL>> \o loop(k + 2)
        ELSE <<sv[k]>> \o loop(k + 1)
  IN loop(1)

\* static std::string s_text_buffer
TextBuffer == "s_text_buffer"

\* const char* webifc_encode_text(const char* raw)
webifc_encode_text(t) ==
  \/ /\ \/ NullArgumentGuard(t, [NewCall("webifc_encode_text") EXCEPT
                                     !.argOk = FALSE], NoCode)
        \/ \E T \in Texts :
             LET c == [NewCall("webifc_encode_text") EXCEPT
                         !.payload = T, !.raw = T]
             IN NullArgumentGuard(t, c, NoCode)
     /\ UNCHANGED <<engineVars, g_mutex, s_buffers>>
  \/ /\ At(t, "webifc_encode_text", "held")
     /\ \E throws \in BOOLEAN :
          IF throws
          THEN /\ Return(t, [call[t] EXCEPT !.caught = TRUE])
               /\ UNCHANGED s_buffers
          ELSE LET out == Escaped(call[t].raw)
               IN /\ s_buffers' = [s_buffers EXCEPT ![TextBuffer] = out]
                  /\ Return(t, [call[t] EXCEPT !.flag = TRUE, !.text = out])
     /\ UNCHANGED engineVars

\* const char* webifc_decode_text(const char* encoded), called with null or
\* with the pointer the caller's webifc_encode_text has just returned; the
\* caller keeps the text it had encoded (payload)
webifc_decode_text(t) ==
  \/ /\ \E ok \in BOOLEAN :
          /\ ok => call[t].op = "webifc_encode_text" /\ call[t].flag
          /\ LET c == [NewCall("webifc_decode_text") EXCEPT
                         !.argOk = ok,
                         !.payload = IF ok THEN call[t].payload ELSE <<>>]
             IN NullArgumentGuard(t, c, NoCode)
     /\ UNCHANGED <<engineVars, g_mutex, s_buffers>>
  \/ /\ At(t, "webifc_decode_text", "held")
     /\ \E throws \in BOOLEAN :
          IF throws
          THEN /\ Return(t, [call[t] EXCEPT !.caught = TRUE])
               /\ UNCHANGED s_buffers
          ELSE LET sv == s_buffers[TextBuffer]
                   out == Unescaped(sv)
               IN /\ s_buffers' = [s_buffers EXCEPT ![TextBuffer] = out]
                  /\ Return(t, [call[t] EXCEPT
                                  !.raw = sv, !.flag = TRUE, !.text = out])
     /\ UNCHANGED engineVars

\* static std::string s_typename_buffer
TypenameBuffer == "s_typename_buffer"
GuidBuffer == "s_guid_buffer"
Uint32Buffer == "s_uint32_buffer"

\* the library before its first call, with its static string buffers
InitStatics ==
  /\ open = {}
  /\ lines = [h \in Handles |-> {}]
  /\ geomTable = FileGeometry
  /\ g_mutex = NoThread
  /\ pc = [t \in Threads |-> "idle"]
  /\ call = [t \in Threads |-> NoCall]
  /\ s_buffers = [f \in BufferOwners \cup {TextBuffer, TypenameBuffer,
                                             GuidBuffer, Uint32Buffer} |->
                    IF f \in {TextBuffer, GuidBuffer, Uint32Buffer} THEN <<>>
                    ELSE IF f = TypenameBuffer THEN ""
                    ELSE EmptyBuffers]
  /\ transformation = [h \in Handles |-> Identity]
  /\ deleted_lines = [h \in Handles |-> {}]
  /\ cursor = [h \in Handles |-> NoPosition]
  /\ coordination = [h \in Handles |-> Identity]

NextText ==
  \E t \in Callers :
    \/ lock_guard(t)
    \/ webifc_encode_text(t)
    \/ webifc_decode_text(t)

SpecText == InitStatics /\ [][NextText]_vars

\* ------------------------------------------------------ schema utilities
\* the type codes and type names the callers ask about: the schema's own,
\* and one on either side that the schema does not know
TypeCodes == 0 .. (Len(GetIfcElementList) + 1)
TypeNames == {GetIfcElementList[k] : k \in 1 .. Len(GetIfcElementList)}
               \cup {"IFCNOSUCHTYPE"}

\* schemaManager.IfcTypeToTypeCode(name): 0 for a name it does not know
IfcTypeToTypeCode(name) == TypeCodeFrom(name, 1)

\* schemaManager.IfcTypeCodeToType(code): empty for a code it does not know
IfcTypeCodeToType(code) ==
  IF code \in 1 .. Len(GetIfcElementList) THEN GetIfcElementList[code] ELSE ""

\* schemaManager.IsIfcElement(code)
IsIfcElement(code) == code \in 1 .. Len(GetIfcElementList)

\* const char* webifc_get_name_from_type_code(typeCode)
webifc_get_name_from_type_code(t) ==
  \/ /\ \E code \in TypeCodes :
          Start(t, [NewCall("webifc_get_name_from_type_code") EXCEPT
                      !.typeCode = code], "lock")
     /\ UNCHANGED <<engineVars, g_mutex, s_buffers>>
  \/ /\ At(t, "webifc_get_name_from_type_code", "held")
     /\ \E throws \in BOOLEAN :
          LET c == [call[t] EXCEPT !.eng = {"GetSchemaManager",
                                            "IfcTypeCodeToType"}]
              name == IfcTypeCodeToType(call[t].typeCode)
          IN IF throws
             THEN /\ s_buffers' = [s_buffers EXCEPT ![TypenameBuffer] = ""]
                  /\ Return(t, [c EXCEPT !.caught = TRUE])
             ELSE /\ s_buffers' = [s_buffers EXCEPT ![TypenameBuffer] = name]
                  /\ Return(t, [c EXCEPT !.flag = (name # ""),
                                         !.typeName = name])
     /\ UNCHANGED engineVars

\* uint32_t webifc_get_type_code_from_name(typeName)
webifc_get_type_code_from_name(t) ==
  \/ /\ \/ NullArgumentGuard(t, [NewCall("webifc_get_type_code_from_name")
                                    EXCEPT !.argOk = FALSE], NoCode)
        \/ \E name \in TypeNames :
             NullArgumentGuard(t, [NewCall("webifc_get_type_code_from_name")
                                     EXCEPT !.typeName = name], NoCode)
     /\ UNCHANGED <<engineVars, g_mutex, s_buffers>>
  \/ /\ At(t, "webifc_get_type_code_from_name", "held")
     /\ \E throws \in BOOLEAN :
          LET c == [call[t] EXCEPT !.eng = {"GetSchemaManager",
                                            "IfcTypeToTypeCode"}]
          IN IF throws
             THEN Return(t, [c EXCEPT !.caught = TRUE])
             ELSE Return(t, [c EXCEPT !.typeCode =
                                        IfcTypeToTypeCode(call[t].typeName)])
     /\ UNCHANGED <<engineVars, s_buffers>>

webifc_is_ifc_element_open_only(t) ==
  \/ /\ \E code \in TypeCodes :
          Start(t, [NewCall("webifc_is_ifc_element") EXCEPT
                      !.typeCode = code], "lock")
     /\ UNCHANGED <<engineVars, g_mutex, s_buffers>>
  \/ /\ At(t, "webifc_is_ifc_element", "held")
     /\ Return(t, [call[t] EXCEPT
                     !.eng = {"GetSchemaManager", "IsIfcElement"},
                     !.flag = (open # {} /\ IsIfcElement(call[t].typeCode))])
     /\ UNCHANGED <<engineVars, s_buffers>>

\* bool webifc_is_ifc_element(typeCode)
webifc_is_ifc_element(t) ==
  \/ /\ \E code \in TypeCodes :
          Start(t, [NewCall("webifc_is_ifc_element") EXCEPT
                      !.typeCode = code], "lock")
     /\ UNCHANGED <<engineVars, g_mutex, s_buffers>>
  \/ /\ At(t, "webifc_is_ifc_element", "held")
     /\ \E throws \in BOOLEAN :
          LET c == [call[t] EXCEPT !.eng = {"GetSchemaManager",
                                            "IsIfcElement"}]
          IN IF throws
             THEN Return(t, [c EXCEPT !.caught = TRUE])
             ELSE Return(t, [c EXCEPT !.flag = IsIfcElement(call[t].typeCode)])
     /\ UNCHANGED <<engineVars, s_buffers>>

\* the schema utilities beside a registry that opens and closes models
NextSchema ==
  \E t \in Callers :
    \/ lock_guard(t)
    \/ webifc_create_model(t)
    \/ webifc_close_model(t)
    \/ webifc_get_name_from_type_code(t)
    \/ webifc_get_type_code_from_name(t)
    \/ webifc_is_ifc_element(t)

SpecSchema == InitStatics /\ [][NextSchema]_vars

\* ------------------------------------------ the registry under two callers
\* the webifc_ library with a manager that hands out the identifiers
\* 0 .. MaxModels, called from both threads
InitRegistry ==
  /\ open = {}
  /\ lines = [h \in 0 .. MaxModels |-> {}]
  /\ geomTable = FileGeometry
  /\ g_mutex = NoThread
  /\ pc = [t \in Threads |-> "idle"]
  /\ call = [t \in Threads |-> NoCall]
  /\ s_buffers = [f \in BufferOwners |-> EmptyBuffers]
  /\ transformation = [h \in 0 .. MaxModels |-> Identity]
  /\ deleted_lines = [h \in 0 .. MaxModels |-> {}]
  /\ cursor = [h \in 0 .. MaxModels |-> NoPosition]
  /\ coordination = [h \in 0 .. MaxModels |-> Identity]

NextRegistry ==
  \E t \in Threads :
    \/ lock_guard(t)
    \/ webifc_create_model(t)
    \/ webifc_is_model_open(t)
    \/ webifc_close_model(t)
    \/ webifc_close_all_models(t)
    \/ webifc_load_step_from_memory(t)
    \/ webifc_get_model_size(t)
    \/ webifc_reset_cache(t)

SpecRegistry == InitRegistry /\ [][NextRegistry]_vars

\* ================================================================ properties
\* thread t has made a call and the call has returned
Returned(t) == pc[t] = "idle" /\ call[t].op # "none"

\* positions at which a call is working on the registry or on an engine
InCall == {"held", "loop", "engine", "loading"}

StreamOps ==
  {"webifc_stream_meshes", "webifc_stream_meshes_with_types",
   "webifc_stream_all_meshes", "webifc_stream_all_flat_meshes"}

\* the operations that report an error code and test a pointer argument
CodeOps ==
  {"webifc_load_step_from_memory", "webifc_get_string_argument",
   "webifc_get_flat_mesh"}

\* every flattened mesh handed to a caller, with the placed geometries it
\* was built from: the result of a successful single-element request and
\* the mesh of every callback invocation
Results ==
  UNION {
    (IF Returned(t) /\ call[t].op = "webifc_get_flat_mesh"
                    /\ call[t].code = WEBIFC_OK
     THEN {[mesh |-> call[t].out, flat |-> call[t].flat]}
     ELSE {})
    \cup {[mesh |-> call[t].cbs[n].mesh, flat |-> call[t].cbs[n].flat] :
            n \in 1 .. Len(call[t].cbs)}
    : t \in Threads}

\* vertex count of a geometry: its vertex-buffer length over the lane width
VertexCount(geom) == Len(geom.vertexData) \div VERTEX_FORMAT_SIZE_FLOATS

\* vertices of the placed geometries before the k-th
RECURSIVE VertsBefore(_, _)
VertsBefore(flat, k) ==
  IF k <= 1 THEN 0
  ELSE VertsBefore(flat, k - 1) + VertexCount(flat[k - 1])

\* indices of the placed geometries before the k-th
RECURSIVE IndicesBefore(_, _)
IndicesBefore(flat, k) ==
  IF k <= 1 THEN 0
  ELSE IndicesBefore(flat, k - 1) + Len(flat[k - 1].indexData)

\* the vertex buffers of the placed geometries from the k-th on, end to end
RECURSIVE ConcatVertexData(_, _)
ConcatVertexData(flat, k) ==
  IF k > Len(flat) THEN <<>>
  ELSE flat[k].vertexData \o ConcatVertexData(flat, k + 1)

\* C1: every streaming call (by identifiers, by types, full-model) runs to
\* completion; none of them blocks forever on the process-wide lock.
\* Refuted: streaming by types and full-model streaming lock g_mutex a second
\* time through the nested call while they own it.
C1_NoStreamBlocksForever ==
  \A t \in Threads : pc[t] # "deadlocked"

\* C2: every call that touches the registry or an engine holds the
\* process-wide lock for as long as it is inside, and does not own it once it
\* has returned.  Refuted by the ifc_api_ functions and the helpers.
C2_LockHeldThroughout ==
  \A t \in Threads :
    /\ pc[t] \in InCall => g_mutex = t
    /\ pc[t] = "idle" => g_mutex # t

\* C3: at any moment at most one call is executing engine operations.
\* Refuted by the ifc_api_ functions and the helpers, for the reason of C2.
C3_OneCallInEngine ==
  Cardinality({t \in Threads : pc[t] \in InCall}) <= 1

C5_IndicesInRange ==
  \A r \in Results :
    \A j \in 1 .. Len(r.mesh.s_indices) :
      r.mesh.s_indices[j]
        < Len(r.mesh.s_vertices) \div VERTEX_FORMAT_SIZE_FLOATS

\* C5 witness: a mesh of two geometries whose last index is the last vertex
C5_Witness ==
  \E r \in Results :
    /\ Len(r.flat) = 2
    /\ VertexCount(r.flat[1]) > 0
    /\ Len(r.mesh.s_indices) > 0
    /\ r.mesh.s_indices[Len(r.mesh.s_indices)]
         = Len(r.mesh.s_vertices) \div VERTEX_FORMAT_SIZE_FLOATS - 1
    /\ r.mesh.s_indices[Len(r.mesh.s_indices)] >= VertexCount(r.flat[1])

\* C6: each index copied from the k-th placed geometry equals its local
\* index plus the sum of the vertex counts of the geometries before the
\* k-th, and sits after the indices of those geometries.
C6_IndicesRebased ==
  \A r \in Results :
    /\ Len(r.mesh.s_indices) = IndicesBefore(r.flat, Len(r.flat) + 1)
    /\ \A k \in 1 .. Len(r.flat) :
         \A j \in 1 .. Len(r.flat[k].indexData) :
           r.mesh.s_indices[IndicesBefore(r.flat, k) + j]
             = r.flat[k].indexData[j] + VertsBefore(r.flat, k)

\* C6 witness: an index of a second geometry was moved by a positive offset
C6_Witness ==
  \E r \in Results :
    /\ Len(r.flat) >= 2
    /\ VertsBefore(r.flat, 2) > 0
    /\ Len(r.flat[2].indexData) > 0
    /\ IndicesBefore(r.flat, 2) > 0

C8_SingleSharedStorage ==
  \A f, g \in BufferOwners : s_buffers[f] = s_buffers[g]

\* C8 (amended): each geometry function has static buffers of its own; a
\* step changes the buffers of a function only while a call is executing
\* that function, so a single-element result survives a later streaming call
\* and a streamed result survives a later single-element request.
C8_OwnBuffersOnly ==
  [][\A f \in BufferOwners :
       s_buffers'[f] # s_buffers[f]
         => \E t \in Threads : pc[t] \in {"held", "loop"} /\ call[t].fn = f
    ]_vars

\* C8 witness: a streaming call has returned after a callback, and the
\* single-element buffers still hold an earlier, different, result
C8_Witness ==
  \E t \in Threads :
    /\ Returned(t)
    /\ call[t].op = "webifc_stream_meshes"
    /\ call[t].cbs # <<>>
    /\ s_buffers["webifc_get_flat_mesh"].s_vertices # <<>>
    /\ s_buffers["webifc_get_flat_mesh"]
         # call[t].cbs[Len(call[t].cbs)].mesh
    /\ s_buffers["webifc_stream_meshes"]
         = call[t].cbs[Len(call[t].cbs)].mesh

\* C9: an operation whose handle check fails has made no engine call for
\* that handle.  Refuted by the helper GetLine, which fetches the loader
\* before it checks the handle.
C9_InvalidHandleNoEngineCall ==
  \A t \in Threads :
    Returned(t) /\ ~call[t].valid => call[t].eng = {}

HandleOps ==
  CodeOps \cup StreamOps
    \cup {"webifc_is_model_open", "webifc_get_model_size",
          "webifc_get_line_type"}

\* thread t completes, in this step, a call of one of the operations ops
Completes(t, ops) ==
  /\ pc[t] \in {"held", "loop"}
  /\ pc'[t] = "idle"
  /\ call[t].op \in ops

\* the record of a call that failed cleanly: invalid-model from an operation
\* that returns an error code, the zero / false / no-callback sentinel from
\* any other, no engine call and no exception
FailedCleanly(c) ==
  /\ ~c.fault
  /\ c.eng = {}
  /\ c.op \in CodeOps => c.code = WEBIFC_ERR_INVALID_MODEL
  /\ c.op \notin CodeOps => c.num = 0 /\ ~c.flag /\ c.cbs = <<>>

\* C11: close(h) leaves h not open and close_all() leaves no handle open; an
\* operation completed against a handle that is not open fails cleanly
\* (invalid-model or the sentinel); and a handle becomes open again only
\* when a create call returns it.
C11_ClosedHandleFailsCleanly ==
  [][\A t \in Threads :
       /\ Completes(t, {"webifc_close_model"}) => call[t].model \notin open'
       /\ Completes(t, {"webifc_close_all_models"}) => open' = {}
       /\ Completes(t, HandleOps) /\ call[t].model \notin open
            => FailedCleanly(call'[t])
       /\ \A h \in open' \ open :
            \E u \in Threads :
              Completes(u, {"webifc_create_model"}) /\ call'[u].num = h
    ]_vars

\* C11 witness: a handle that a create call returned is no longer open (it
\* was closed since), and a load against it, made with a valid buffer, has
\* reported invalid-model
C11_Witness ==
  \E h \in ModelIds :
    /\ h \notin open
    /\ call["t1"].op = "webifc_create_model" /\ call["t1"].num = h
    /\ Returned("t1")
    /\ Returned("t2")
    /\ call["t2"].op = "webifc_load_step_from_memory"
    /\ call["t2"].model = h
    /\ call["t2"].argOk
    /\ call["t2"].code = WEBIFC_ERR_INVALID_MODEL

\* C12: close is idempotent: once close(h) has returned, h is not open and
\* is_open(h) answers false; a close of a handle that is not open (a second
\* close, or a handle never created) changes nothing in the registry and
\* raises nothing.
C12_CloseIdempotent ==
  [][\A t \in Threads :
       /\ Completes(t, {"webifc_close_model"})
            => /\ call[t].model \notin open'
               /\ ~call'[t].fault
               /\ call[t].model \notin open => UNCHANGED engineVars
       /\ Completes(t, {"webifc_is_model_open"})
            => call'[t].flag = (call[t].model \in open)
    ]_vars

\* C12 witness: both threads have closed the same handle, one after the
\* other, and another model is still open with its lines loaded
C12_Witness ==
  \E h \in ModelIds, g \in open :
    /\ h \notin open
    /\ g # h
    /\ lines[g] # {}
    /\ \A t \in Threads :
         /\ Returned(t)
         /\ call[t].op = "webifc_close_model"
         /\ call[t].model = h
         /\ ~call[t].fault

\* C13: a create call never returns a handle that is open at the time of the
\* call: the handle it returns was not open before and is the one handle
\* the call adds to the open handles, whatever creates and closes the two
\* threads interleave.
C13_CreateReturnsFreshHandle ==
  [][\A t \in Threads :
       Completes(t, {"webifc_create_model"})
         => /\ call'[t].num \notin open
            /\ open' = open \cup {call'[t].num}
    ]_vars

\* C13 witness: the create calls of the two threads have returned two
\* handles that are open together, and they differ
C13_Witness ==
  /\ \A t \in Threads :
       /\ Returned(t)
       /\ call[t].op = "webifc_create_model"
       /\ call[t].num \in open
  /\ call["t1"].num # call["t2"].num

\* C14: close(h) changes the open state of h only: every other handle is
\* open after the call exactly if it was open before, and keeps its lines
\* and its transformation.
C14_CloseLeavesOthersOpen ==
  [][\A t \in Threads :
       Completes(t, {"webifc_close_model"})
         => \A g \in ModelIds \ {call[t].model} :
              /\ (g \in open') = (g \in open)
              /\ lines'[g] = lines[g]
              /\ transformation'[g] = transformation[g]
    ]_vars

\* C14 witness: a handle that a create call returned has been closed by the
\* other thread, and another model is still open with its lines loaded
C14_Witness ==
  \E h \in ModelIds, g \in open :
    /\ h \notin open
    /\ g # h
    /\ lines[g] # {}
    /\ Returned("t1") /\ Returned("t2")
    /\ call["t1"].op = "webifc_create_model" /\ call["t1"].num = h
    /\ call["t2"].op = "webifc_close_model" /\ call["t2"].model = h

\* C15: no exception thrown by the engine leaves a call of the library:
\* every operation turns it into an error code or a sentinel.  Refuted by the
\* argument readers and the introspection queries, which call the loader
\* outside any try block.
C15_NoFaultCrossesBoundary ==
  \A t \in Threads : ~call[t].fault

Streamable(flat) ==
  /\ Len(ConcatVertexData(flat, 1)) > 0
  /\ IndicesBefore(flat, Len(flat) + 1) > 0

\* the first n identifiers of a list that have a streamable flat mesh
RECURSIVE ExpectedIds(_, _, _)
ExpectedIds(h, ids, n) ==
  IF n <= 0 THEN <<>>
  ELSE ExpectedIds(h, ids, n - 1)
         \o (IF Streamable(GetFlatMesh(h, ids[n])) THEN <<ids[n]>> ELSE <<>>)

\* the identifiers the callback invocations of a call were passed, in order
CallbackIds(c) == [n \in 1 .. Len(c.cbs) |-> c.cbs[n].id]

\* C17: streaming over an identifier list invokes the callback once for
\* each listed identifier whose flattened result is non-empty (vertices and
\* indices), in list order and as often as the list names it, with that
\* identifier and the caller's context value; it never invokes it for an
\* identifier without placed geometries.  After an engine exception the
\* invocations made are those for the identifiers before the failing one.
C17_CallbackPerNonEmptyMesh ==
  \A t \in Threads :
    call[t].op = "webifc_stream_meshes" /\ call[t].argOk
      => LET c == call[t]
             done == IF c.caught THEN c.i - 2 ELSE c.i - 1
         IN /\ CallbackIds(c) = ExpectedIds(c.model, c.ids, done)
            /\ \A n \in 1 .. Len(c.cbs) :
                 /\ c.cbs[n].userData = UserData(t)
                 /\ GetFlatMesh(c.model, c.cbs[n].id) # <<>>

\* C17 witness: the list 1, 3, 2 was streamed to its end with one callback,
\* for line 2: line 1 has placed geometries, but none of them has an index,
\* and line 3 has no placed geometry
C17_Witness ==
  \E t \in Threads :
    /\ Returned(t)
    /\ call[t].op = "webifc_stream_meshes"
    /\ ~call[t].caught
    /\ call[t].ids = <<1, 3, 2>>
    /\ CallbackIds(call[t]) = <<2>>
    /\ Len(GetFlatMesh(call[t].model, 1)) = 2
    /\ Len(ConcatVertexData(GetFlatMesh(call[t].model, 1), 1)) > 0
    /\ GetFlatMesh(call[t].model, 3) = <<>>

\* the element types full-model streaming leaves out on request
ExcludedTypes == {IFCOPENINGELEMENT, IFCOPENINGSTANDARDCASE, IFCSPACE}

\* the lines of model h whose type is one of the schema's element types
\* (without the excluded ones if skip), grouped by type in schema order
RECURSIVE ElementIds(_, _, _)
ElementIds(h, skip, k) ==
  IF k > Len(GetIfcElementList) THEN <<>>
  ELSE (IF skip /\ GetIfcElementList[k] \in ExcludedTypes THEN <<>>
        ELSE GetExpressIDsWithType(h, GetIfcElementList[k]))
       \o ElementIds(h, skip, k + 1)

\* the exclusion half of C18: no callback for an excluded type under the flag
C18_NoExcludedCallback(c) ==
  c.skip => \A n \in 1 .. Len(c.cbs) :
              GetLineType(c.cbs[n].id) \notin ExcludedTypes

\* the coverage half of C18: a call that returned without an exception has
\* made the callbacks for every element of every remaining type
C18_EveryTypeStreamed(c) ==
  LET ids == ElementIds(c.model, c.skip, 1)
  IN CallbackIds(c) = ExpectedIds(c.model, ids, Len(ids))

\* C18: full-model streaming with the exclusion flag never invokes the
\* callback for an opening, opening-standard-case or space element; with
\* the flag clear it streams the elements of every element type of the
\* schema: the call gets to its callbacks and, unless the engine throws,
\* has made one for every such element when it returns.  Refuted: the call
\* stops at the second lock of g_mutex (C1) before any callback.
C18_FullModelStreaming ==
  \A t \in Threads :
    call[t].op = "webifc_stream_all_meshes"
      => /\ C18_NoExcludedCallback(call[t])
         /\ pc[t] # "deadlocked"
         /\ Returned(t) /\ ~call[t].caught /\ call[t].argOk
              /\ IsModelOpen(call[t].model)
              => C18_EveryTypeStreamed(call[t])

\* C19 (as stated): a streaming callback runs while its thread holds the
\* lock, and a callback that calls a lock-taking function of the library
\* blocks forever.
C19_ReentrantCallbackBlocks ==
  \A t \in Threads :
    /\ \A n \in 1 .. Len(call[t].cbs) : call[t].cbs[n].owner = t
    /\ call[t].reentry # "none" => pc[t] = "deadlocked"

\* C19 (amended): a streaming callback runs while its thread holds the
\* lock, so a callback that calls a lock-taking function locks a std::mutex
\* its thread owns, which is undefined behaviour: the call blocks forever
\* with the callback unfinished, or the lock fails and the streaming call
\* returns through its catch block without counting that callback, or the
\* nested call runs and the callback is counted.
C19_CallbackUnderLock ==
  \A t \in Threads :
    /\ \A n \in 1 .. Len(call[t].cbs) : call[t].cbs[n].owner = t
    /\ call[t].reentry = "blocked"
         => pc[t] = "deadlocked" /\ g_mutex = t
                                /\ call[t].streamed = Len(call[t].cbs) - 1
    /\ call[t].reentry = "threw"
         => Returned(t) /\ call[t].caught
                        /\ call[t].num = Len(call[t].cbs) - 1
    /\ call[t].reentry = "ran"
         => pc[t] # "deadlocked" /\ call[t].streamed = Len(call[t].cbs)

\* C19 witness: the thread is blocked inside its second callback, which
\* called the library while the thread owned the lock
C19_Witness ==
  \E t \in Threads :
    /\ pc[t] = "deadlocked"
    /\ call[t].reentry = "blocked"
    /\ g_mutex = t
    /\ Len(call[t].cbs) = 2
    /\ call[t].cbs[2].owner = t

\* C20: for every payload the fill call returns the size the preflight call
\* returned; it writes that many payload bytes, which are the payload, one
\* terminator after them for text, and nothing beyond.
C20_PreflightFillAgree ==
  \A t \in Threads :
    Returned(t) /\ call[t].op \in {"ffi_strdup", "ffi_strdup_bytes"}
      => LET c == call[t]
             written == c.need + (IF c.op = "ffi_strdup" THEN 1 ELSE 0)
         IN /\ c.num = c.need
            /\ ~c.dest.null
            /\ SubSeq(c.dest.cells, 1, c.need) = c.payload
            /\ c.op = "ffi_strdup" => c.dest.cells[c.need + 1] = NUL
            /\ \A k \in (written + 1) .. Len(c.dest.cells) :
                 c.dest.cells[k] = Unwritten

\* C20 witness: a text payload of two bytes or more with a NUL inside was
\* filled into a destination with one cell to spare
C20_Witness ==
  \E t \in Threads :
    /\ Returned(t)
    /\ call[t].op = "ffi_strdup"
    /\ Len(call[t].payload) >= 2
    /\ call[t].payload[1] = NUL
    /\ call[t].num = Len(call[t].payload)
    /\ Len(call[t].dest.cells) = call[t].need + 2

\* the auto-allocating transfer functions
AutoOps == {"ffi_strdup_auto", "ffi_memdup", "ffi_arrdup", "ffi_vecdup"}

\* C21: the auto-allocating text transfer, given a destination whose inner
\* pointer is null, acquires storage of the payload size plus one (so at
\* least one byte), writes the new pointer back, and leaves there the payload
\* followed by a terminator, for the empty payload too (storage permitting).
C21_AutoAllocateText ==
  \A t \in Threads :
    LET c == call[t]
    IN Returned(t) /\ c.op = "ffi_strdup_auto" /\ ~c.outNull /\ c.inner0.null
         /\ c.mallocs = c.allocs
       => /\ c.allocs = 1
          /\ ~c.dest.null
          /\ Len(c.dest.cells) = Len(c.payload) + 1
          /\ SubSeq(c.dest.cells, 1, Len(c.payload)) = c.payload
          /\ c.dest.cells[Len(c.payload) + 1] = NUL
          /\ c.num = Len(c.payload)

\* C21 witness: the empty text was transferred into storage the function
\* acquired, one byte holding the terminator
C21_Witness ==
  \E t \in Threads :
    /\ Returned(t) /\ call[t].op = "ffi_strdup_auto"
    /\ ~call[t].outNull /\ call[t].inner0.null
    /\ call[t].payload = <<>>
    /\ call[t].dest = [null |-> FALSE, cells |-> <<NUL>>]

\* C22: when std::malloc fails in an auto-allocating transfer (text, raw
\* bytes, array, vector), the function returns zero and the caller's pointer
\* is as it was, null.
C22_AllocationFailure ==
  \A t \in Threads :
    LET c == call[t]
    IN Returned(t) /\ c.op \in AutoOps /\ c.mallocs > c.allocs
       => c.num = 0 /\ c.dest = c.inner0 /\ c.dest.null

\* C22 witness: std::malloc failed for a non-empty raw-byte payload
C22_Witness ==
  \E t \in Threads :
    /\ Returned(t) /\ call[t].op = "ffi_memdup"
    /\ call[t].payload # <<>>
    /\ call[t].mallocs = 1 /\ call[t].allocs = 0
    /\ call[t].num = 0

\* C23: a zero-length payload given to the raw-byte, array or vector
\* transfer calls std::malloc not at all and leaves the destination as it
\* was, whether the inner pointer was null or pointed to storage.
C23_EmptyPayloadNoAllocation ==
  \A t \in Threads :
    LET c == call[t]
    IN Returned(t) /\ c.op \in {"ffi_memdup", "ffi_arrdup", "ffi_vecdup"}
         /\ c.payload = <<>>
       => c.mallocs = 0 /\ c.dest = c.inner0 /\ c.num = 0

\* C23 witness: an empty vector was transferred to a destination whose
\* inner pointer was null, and it still is
C23_Witness ==
  \E t \in Threads :
    /\ Returned(t) /\ call[t].op = "ffi_vecdup"
    /\ call[t].payload = <<>>
    /\ ~call[t].outNull /\ call[t].inner0.null
    /\ call[t].dest.null

\* C24: for every text T, decoding what webifc_encode_text returned for T
\* gives T, for texts with control characters, backslashes and newlines and
\* with a backslash followed by n or by a backslash.
C24_DecodeEncodeRoundTrip ==
  \A t \in Threads :
    LET c == call[t]
    IN Returned(t) /\ c.op = "webifc_decode_text" /\ c.flag
       => c.raw = Escaped(c.payload) /\ c.text = c.payload

\* C24 witness: the text of a backslash followed by the letter n came back
\* from the decoder, which was given two backslashes and the letter
C24_Witness ==
  \E t \in Threads :
    /\ Returned(t) /\ call[t].op = "webifc_decode_text" /\ call[t].flag
    /\ call[t].payload = <<BSL, "n">>
    /\ call[t].raw = <<BSL, BSL, "n">>
    /\ call[t].text = call[t].payload

\* thread t returns from function op in this step
Returns(t, op) == At(t, op, "held") /\ pc'[t] = "idle"

C26_ResetCacheKeepsRegistry ==
  [][\A t \in Threads :
       Returns(t, "webifc_reset_cache")
         => /\ open' = open
            /\ call'[t].valid = IsModelOpen(call[t].model)
            /\ ~IsModelOpen(call[t].model)
                 => call'[t].eng = {} /\ UNCHANGED <<engineVars, s_buffers>>]_vars

\* C26 witness: the cache of an open, loaded model was reset while another
\* handle was closed, and the registry still holds exactly that model
C26_Witness ==
  \E t \in Threads :
    /\ Returned(t) /\ call[t].op = "webifc_reset_cache"
    /\ call[t].valid /\ call[t].eng = {"GetGeometryProcessor", "ResetCache"}
    /\ open = {call[t].model}
    /\ lines[call[t].model] # {}
    /\ ModelIds \ open # {}

\* the type and schema utilities
SchemaOps ==
  {"webifc_get_name_from_type_code", "webifc_get_type_code_from_name",
   "webifc_is_ifc_element"}

\* C27: the type and schema utilities make no handle check and change
\* nothing of the registry or the models; what they return is what the
\* schema manager says about their argument, whatever handles are open.
C27_SchemaUtilitiesHandleIndependent ==
  [][\A t \in Threads :
       \A op \in SchemaOps :
         Returns(t, op)
           => LET c == call'[t]
              IN /\ UNCHANGED engineVars
                 /\ c.valid = call[t].valid /\ c.model = call[t].model
                 /\ ~c.caught /\ op = "webifc_get_name_from_type_code"
                      => /\ c.typeName = IfcTypeCodeToType(c.typeCode)
                         /\ c.flag = (c.typeName # "")
                 /\ ~c.caught /\ op = "webifc_get_type_code_from_name"
                      => c.typeCode = IfcTypeToTypeCode(c.typeName)
                 /\ ~c.caught /\ op = "webifc_is_ifc_element"
                      => c.flag = IsIfcElement(c.typeCode)]_vars

\* C27 witness: with no model open, a type code was found to be an element
C27_Witness ==
  \E t \in Threads :
    /\ Returned(t) /\ call[t].op = "webifc_is_ifc_element"
    /\ call[t].flag /\ ~call[t].caught
    /\ open = {}

\* C28: ifc_api_open_model called with a zero-length buffer returns the
\* invalid-model value, and the registry holds the models it held before.
C28_EmptyOpenRejected ==
  [][\A t \in Threads :
       /\ pc[t] = "idle"
       /\ call'[t] # call[t]
       /\ call'[t].op = "ifc_api_open_model"
       /\ call'[t].length = 0
       => /\ pc'[t] = "idle"
          /\ call'[t].num = InvalidModelId
          /\ open' = open]_vars

\* C29: when opening a model fails on its input, the model the call had
\* made is not in the registry afterwards and holds no lines.
C29_FailedOpenLeavesNoModel ==
  [][\A t \in Threads :
       At(t, "OpenModel", "loading") /\ pc'[t] = "idle" /\ call'[t].fault
         => /\ call[t].model \notin open'
            /\ lines'[call[t].model] = {}]_vars

\* the argument accessors, which return an error code
ArgumentAccessors ==
  {"webifc_get_string_argument", "webifc_get_double_argument",
   "webifc_get_int_argument", "webifc_get_ref_argument"}

\* the element a returned call asked for is no line of its model
NoSuchElement(c) == c.expressId \notin lines[c.model]

\* C30 as stated: an argument accessor on a handle that is not open returns
\* the signal it returns for an element that does not exist (out-of-range).
C30_SameNotFoundSignal ==
  \A t \in Threads :
    LET c == call[t]
    IN Returned(t) /\ c.op \in ArgumentAccessors /\ c.argOk /\ ~c.valid
       => c.code = WEBIFC_ERR_OUT_OF_RANGE

\* C30, amended: a read accessor fails on a handle that is not open as it
\* fails on an element that does not exist, and writes no value in either
\* case. The validity check reports false in both. An argument accessor
\* returns invalid-model for the handle and out-of-range for the element:
\* two codes, both different from WEBIFC_OK.
C30_BothCasesFail ==
  \A t \in Threads :
    LET c == call[t]
    IN /\ Returned(t) /\ c.op \in ArgumentAccessors /\ c.argOk
          => /\ ~c.valid
                  => c.code = WEBIFC_ERR_INVALID_MODEL /\ ~c.flag /\ c.eng = {}
             /\ c.valid /\ NoSuchElement(c)
                  => c.code = WEBIFC_ERR_OUT_OF_RANGE /\ ~c.flag
       /\ Returned(t) /\ c.op = "webifc_validate_express_id"
            /\ (~c.valid \/ NoSuchElement(c))
          => ~c.flag

\* C30 witness: the double accessor was called on the closed handle
C30_Witness ==
  \E t \in Threads :
    /\ Returned(t) /\ call[t].op = "webifc_get_double_argument"
    /\ call[t].argOk /\ ~call[t].valid
    /\ ~IsModelOpen(call[t].model)
    /\ call[t].code = WEBIFC_ERR_INVALID_MODEL

\* ------------------------------------------------- the argument accessors
\* two threads read integer and reference arguments of a loaded model
\* the other thread reads the arguments of line 2 as references
OtherReader(t) ==
  /\ webifc_get_ref_argument(t)
  /\ call'[t].argOk /\ call'[t].expressId = 2

NextArgs ==
  \/ \E t \in Threads : lock_guard(t)
  \/ \E t \in Callers :
       \/ webifc_get_int_argument(t)
       \/ webifc_get_ref_argument(t)
  \/ \E t \in Threads \ Callers : OtherReader(t)

SpecArgs == InitLoaded /\ [][NextArgs]_vars

\* the token type an accessor is asked to read
RequestedType(op) ==
  IF op = "webifc_get_string_argument" THEN StringToken
  ELSE IF op = "webifc_get_double_argument" THEN RealToken
  ELSE IF op = "webifc_get_int_argument" THEN IntegerToken
  ELSE RefToken

\* the position a returned call asked for
Requested(c) == <<c.expressId, c.argIndex>>

\* C31: an argument accessor called with an argument index beyond the
\* element's argument count, or on an argument whose stored type differs
\* from the requested one, returns out-of-range or invalid-argument and
\* writes no value to the caller's output.
C31_MismatchRejected ==
  \A t \in Threads :
    LET c == call[t]
    IN /\ Returned(t) /\ c.op \in ArgumentAccessors
       /\ c.argOk /\ c.valid /\ ~NoSuchElement(c)
       /\ \/ BeyondArguments(c.expressId, c.argIndex)
          \/ ArgumentAt(Requested(c)).type # RequestedType(c.op)
       => /\ ~c.fault
          /\ c.code \in {WEBIFC_ERR_OUT_OF_RANGE, WEBIFC_ERR_INVALID_ARGUMENT}
          /\ ~c.flag

\* C32: each argument accessor moves the engine's argument cursor to the
\* requested (element, argument index) before it reads, so the value it
\* returns is the argument stored at the requested position, wherever
\* earlier calls of either thread left the cursor.
C32_ValueFromRequestedPosition ==
  \A t \in Threads :
    LET c == call[t]
    IN /\ Returned(t) /\ c.op \in ArgumentAccessors
       /\ c.code = WEBIFC_OK
       => /\ c.flag
          /\ c.value = [as |-> RequestedType(c.op),
                        of |-> LineArguments(c.expressId)[c.argIndex + 1]]

\* C32 witness: both threads have read from the same model at different
\* positions, and the cursor stands where the call of u left it
C32_Witness ==
  \E t \in Threads, u \in Threads :
    /\ t # u
    /\ Returned(t) /\ Returned(u)
    /\ t \in Callers
    /\ call[t].op = "webifc_get_int_argument"
    /\ call[u].op = "webifc_get_ref_argument"
    /\ call[t].code = WEBIFC_OK /\ call[u].code = WEBIFC_OK
    /\ call[t].model = call[u].model
    /\ Requested(call[t]) # Requested(call[u])
    /\ cursor[call[u].model] = <<call[u].expressId, call[u].argIndex + 1>>
    /\ call[t].value.of = [type |-> IntegerToken, value |-> <<"3">>]

\* ------------------------------------------------------ string arguments
\* one caller reads string arguments into buffers of every size
NextString ==
  \E t \in Callers :
    \/ lock_guard(t)
    \/ webifc_get_string_argument(t)

SpecString == InitLoaded /\ [][NextString]_vars

\* the call decoded the argument it asked for
Decoded(c) ==
  /\ c.op = "webifc_get_string_argument"
  /\ "GetDecodedStringArgument" \in c.eng
  /\ ~c.fault

\* what the loader decodes at the position the call asked for
DecodedAt(c) ==
  GetDecodedStringArgument(MoveToLineArgument(c.model, c.expressId,
                                              c.argIndex), c.model)

\* C40: get_string_argument never writes more than maxLen bytes into the
\* caller's buffer: when the decoded string plus its terminator does not
\* fit, it returns invalid-argument and writes nothing.
C40_StringFitsBuffer ==
  \A t \in Threads :
    LET c == call[t]
        size == Len(DecodedAt(c))
    IN Returned(t) /\ c.op = "webifc_get_string_argument"
       => /\ c.written <= c.maxLen
          /\ ~c.flag => c.written = 0
          /\ Decoded(c) /\ size + 1 > c.maxLen
               => /\ c.code = WEBIFC_ERR_INVALID_ARGUMENT
                  /\ c.written = 0 /\ ~c.flag
          /\ Decoded(c) /\ size + 1 <= c.maxLen
               => c.code = WEBIFC_OK /\ c.written = size + 1

\* C40 witness: a string of MaxLen characters was decoded for a buffer of
\* MaxLen bytes, which has no room for the terminator
C40_Witness ==
  \E t \in Threads :
    /\ Returned(t) /\ Decoded(call[t])
    /\ Len(DecodedAt(call[t])) = call[t].maxLen
    /\ call[t].code = WEBIFC_ERR_INVALID_ARGUMENT
    /\ call[t].written = 0

\* -------------------------------------------------------------- GUIDs
\* the strings the engine's generator hands out, each one character long
Guids == {<<g>> : g \in 1 .. MaxGuid}

\* loader->GenerateUUID(): a non-empty string that differs from the one the
\* generator handed out before
GenerateUUID(last) == Guids \ {last}

\* const char* webifc_generate_guid(model): the string is assigned to the
\* static s_guid_buffer and the pointer returned is s_guid_buffer.c_str()
webifc_generate_guid(t) ==
  \/ /\ \E h \in ModelIds :
          LET holds == IF call[t].op = "webifc_generate_guid"
                          /\ call[t].model = h
                       THEN call[t].ptr ELSE "null"
              c == [NewCall("webifc_generate_guid") EXCEPT
                      !.model = h, !.before = holds]
          IN Start(t, c, "lock")
     /\ UNCHANGED <<engineVars, g_mutex, s_buffers>>
  \/ /\ At(t, "webifc_generate_guid", "held")
     /\ IF ~IsModelOpen(call[t].model)
        THEN /\ Return(t, Checked(t))
             /\ UNCHANGED s_buffers
        ELSE \E throws \in BOOLEAN :
               IF throws
               THEN /\ Return(t, [Checked(t) EXCEPT
                            !.eng = {"GetIfcLoader", "GenerateUUID"},
                            !.caught = TRUE])
                    /\ UNCHANGED s_buffers
               ELSE \E guid \in GenerateUUID(s_buffers[GuidBuffer]) :
                      /\ s_buffers' = [s_buffers EXCEPT ![GuidBuffer] = guid]
                      /\ Return(t, [Checked(t) EXCEPT
                            !.eng = {"GetIfcLoader", "GenerateUUID"},
                            !.flag = TRUE, !.ptr = GuidBuffer,
                            !.text = guid])
     /\ UNCHANGED engineVars

NextGuid ==
  \E t \in Threads :
    \/ lock_guard(t)
    \/ webifc_create_model(t)
    \/ webifc_close_model(t)
    \/ webifc_generate_guid(t)

SpecGuid == InitStatics /\ [][NextGuid]_vars

\* the string the caller reads behind a pointer it was returned
Behind(ptr) == s_buffers[ptr]

\* C33: two successive GUID-generation calls on the same open model return
\* non-empty strings that are distinct from each other when the caller
\* compares the two returned results after the second call.
C33_SuccessiveGuidsDistinct ==
  \A t \in Threads :
    LET c == call[t]
    IN /\ Returned(t) /\ c.op = "webifc_generate_guid"
       /\ c.before # "null" /\ c.ptr # "null"
       => /\ Behind(c.before) # <<>> /\ Behind(c.ptr) # <<>>
          /\ Behind(c.before) # Behind(c.ptr)

\* ------------------------------------- geometry of a whole model, matrices
\* the lines of h from id on that have placed geometries, ascending
RECURSIVE GeometryIdsFrom(_, _)
GeometryIdsFrom(h, id) ==
  IF id > MaxExpressId THEN <<>>
  ELSE (IF GetFlatMesh(h, id) # <<>> THEN <<id>> ELSE <<>>)
       \o GeometryIdsFrom(h, id + 1)

\* the part of a sequence of ids below id k
Below(ids, k) == SelectSeq(ids, LAMBDA id : id < k)

\* what evaluating the geometry of h may make of its coordination matrix:
\* the first evaluation fixes it, to the identity or, for a model created
\* with COORDINATE_TO_ORIGIN, to the shift of the first geometry
Coordinated(h) ==
  IF coordination[h] = Identity /\ lines[h] # {}
  THEN Matrices ELSE {coordination[h]}

\* WebIFC_UInt32Array webifc_load_all_geometry(model)
webifc_load_all_geometry(t) ==
  \/ /\ \E h \in ModelIds :
          Start(t, [NewCall("webifc_load_all_geometry") EXCEPT !.model = h],
                "lock")
     /\ UNCHANGED <<engineVars, g_mutex, s_buffers>>
  \/ /\ At(t, "webifc_load_all_geometry", "held")
     /\ LET h == call[t].model
            all == GeometryIdsFrom(h, 1)
            c == [Checked(t) EXCEPT
                    !.eng = {"GetGeometryProcessor", "GetIfcLoader",
                             "GetMaxExpressId"}]
        IN IF ~IsModelOpen(h)
           THEN /\ s_buffers' = [s_buffers EXCEPT ![Uint32Buffer] = <<>>]
                /\ Return(t, Checked(t))
                /\ UNCHANGED coordination
           ELSE \E thr \in {0} \cup lines[h], m \in Coordinated(h) :
                  /\ coordination' = [coordination EXCEPT ![h] = m]
                  /\ IF thr # 0
                     THEN /\ s_buffers' = [s_buffers EXCEPT
                                 ![Uint32Buffer] = Below(all, thr)]
                          /\ Return(t, [c EXCEPT
                                 !.eng = @ \cup {"GetFlatMesh"},
                                 !.caught = TRUE])
                     ELSE /\ s_buffers' = [s_buffers EXCEPT
                                 ![Uint32Buffer] = all]
                          /\ Return(t, [c EXCEPT
                                 !.eng = @ \cup (IF lines[h] = {} THEN {}
                                                 ELSE {"GetFlatMesh"}),
                                 !.flag = TRUE, !.ptr = Uint32Buffer,
                                 !.num = Len(all)])
     /\ UNCHANGED <<open, lines, geomTable, transformation, deleted_lines,
                    cursor>>

webifc_get_coordination_matrix_zero(t) ==
  \/ /\ \E h \in ModelIds, ok \in BOOLEAN :
          LET c == [NewCall("webifc_get_coordination_matrix") EXCEPT
                      !.model = h, !.argOk = ok]
          IN NullArgumentGuard(t, c, NoCode)
     /\ UNCHANGED <<engineVars, g_mutex, s_buffers>>
  \/ /\ At(t, "webifc_get_coordination_matrix", "held")
     /\ Return(t, [Checked(t) EXCEPT !.flag = TRUE, !.m = "zero"])
     /\ UNCHANGED <<engineVars, s_buffers>>

\* bool webifc_get_coordination_matrix(model, outMatrix16)
webifc_get_coordination_matrix(t) ==
  \/ /\ \E h \in ModelIds, ok \in BOOLEAN :
          LET c == [NewCall("webifc_get_coordination_matrix") EXCEPT
                      !.model = h, !.argOk = ok]
          IN NullArgumentGuard(t, c, NoCode)
     /\ UNCHANGED <<engineVars, g_mutex, s_buffers>>
  \/ /\ At(t, "webifc_get_coordination_matrix", "held")
     /\ IF ~IsModelOpen(call[t].model)
        THEN Return(t, Checked(t))
        ELSE \E throws \in BOOLEAN :
               LET c == [Checked(t) EXCEPT
                           !.eng = {"GetGeometryProcessor",
                                    "GetFlatCoordinationMatrix"}]
               IN IF throws
                  THEN Return(t, [c EXCEPT !.caught = TRUE])
                  ELSE Return(t, [c EXCEPT
                         !.flag = TRUE, !.m = coordination[call[t].model]])
     /\ UNCHANGED <<engineVars, s_buffers>>

\* one caller creates, loads and closes models, evaluates their geometry
\* and asks for their coordination matrix
NextCoordination ==
  \E t \in Callers :
    \/ lock_guard(t)
    \/ webifc_create_model(t)
    \/ webifc_close_model(t)
    \/ webifc_load_step_from_memory(t)
    \/ webifc_load_all_geometry(t)
    \/ webifc_get_coordination_matrix(t)

SpecCoordination == InitStatics /\ [][NextCoordination]_vars

\* C34: a freshly created model on which no geometry has been evaluated
\* reports a coordination matrix equal to the identity matrix.  Creating a
\* model leaves its matrix at the identity, the matrix of an open model
\* changes in no step but an evaluation of that model's geometry, and the
\* matrix a successful call reports is the matrix of the model.
C34_FreshModelIdentity ==
  [][
      /\ \A h \in ModelIds :
           /\ h \notin open /\ h \in open' => coordination'[h] = Identity
           /\ h \in open /\ h \in open' /\ coordination'[h] # coordination[h]
                => \E u \in Threads :
                     /\ At(u, "webifc_load_all_geometry", "held")
                     /\ call[u].model = h
      /\ \A t \in Threads :
           Returns(t, "webifc_get_coordination_matrix") /\ call'[t].flag
             => call'[t].m = coordination[call[t].model]
  ]_vars

\* C34 witness: the matrix of a loaded model whose geometry nobody has
\* evaluated was reported, and it is the identity
C34_Witness ==
  \E t \in Threads :
    /\ Returned(t) /\ call[t].op = "webifc_get_coordination_matrix"
    /\ call[t].flag /\ call[t].m = Identity
    /\ lines[call[t].model] # {}
    /\ s_buffers[Uint32Buffer] = <<>>

\* ------------------------------------------------------ array results
\* the valid express ids of h from id on, ascending
RECURSIVE ValidIdsFrom(_, _)
ValidIdsFrom(h, id) ==
  IF id > GetMaxExpressId(h) THEN <<>>
  ELSE (IF id \in lines[h] THEN <<id>> ELSE <<>>) \o ValidIdsFrom(h, id + 1)

\* WebIFC_UInt32Array webifc_get_all_line_ids(model): s_uint32_buffer is
\* cleared before the handle is looked at
webifc_get_all_line_ids(t) ==
  \/ /\ \E h \in ModelIds :
          Start(t, [NewCall("webifc_get_all_line_ids") EXCEPT !.model = h],
                "lock")
     /\ UNCHANGED <<engineVars, g_mutex, s_buffers>>
  \/ /\ At(t, "webifc_get_all_line_ids", "held")
     /\ LET h == call[t].model
            all == ValidIdsFrom(h, 1)
            c == [Checked(t) EXCEPT
                    !.eng = {"GetIfcLoader", "GetMaxExpressId"}]
        IN IF ~IsModelOpen(h)
           THEN /\ s_buffers' = [s_buffers EXCEPT ![Uint32Buffer] = <<>>]
                /\ Return(t, Checked(t))
           ELSE \E thr \in {0} \cup lines[h] :
                  IF thr # 0
                  THEN /\ s_buffers' = [s_buffers EXCEPT
                              ![Uint32Buffer] = Below(all, thr)]
                       /\ Return(t, [c EXCEPT
                              !.eng = @ \cup {"IsValidExpressID"},
                              !.caught = TRUE])
                  ELSE /\ s_buffers' = [s_buffers EXCEPT
                              ![Uint32Buffer] = all]
                       /\ Return(t, [c EXCEPT
                              !.eng = @ \cup (IF lines[h] = {} THEN {}
                                              ELSE {"IsValidExpressID"}),
                              !.flag = TRUE, !.ptr = Uint32Buffer,
                              !.num = Len(all)])
     /\ UNCHANGED engineVars

\* one caller creates, loads and closes models and asks for arrays of ids
NextArrays ==
  \E t \in Callers :
    \/ lock_guard(t)
    \/ webifc_create_model(t)
    \/ webifc_close_model(t)
    \/ webifc_load_step_from_memory(t)
    \/ webifc_get_all_line_ids(t)
    \/ webifc_load_all_geometry(t)

SpecArrays == InitStatics /\ [][NextArrays]_vars

\* the functions that return a view of s_uint32_buffer
ArrayOps == {"webifc_get_all_line_ids", "webifc_load_all_geometry"}

\* C39: an array-returning call that fails its handle check leaves the
\* array exposed by an earlier successful array-returning call intact: the
\* earlier view still has the same length and contents.
C39_FailedCallKeepsEarlierView ==
  [][
      \A t \in Threads :
        /\ \E op \in ArrayOps : Returns(t, op)
        /\ ~IsModelOpen(call[t].model)
        => s_buffers'[Uint32Buffer] = s_buffers[Uint32Buffer]
  ]_vars

\* ------------------------------------------ the single-element flat mesh
\* the call asked for a line of an open model that has no placed geometries
NoPlacedGeometries(c) ==
  /\ c.op = "webifc_get_flat_mesh"
  /\ c.argOk /\ c.valid
  /\ GetFlatMesh(c.model, c.expressId) = <<>>

\* C37: a single-element flat-mesh request for an element that has no
\* placed geometries returns an empty or failed result: either an error is
\* returned or the reported vertex and index counts are both zero, and
\* nothing from an earlier request is exposed.
C37_NoGeometryEmptyResult ==
  \A t \in Threads :
    LET c == call[t]
    IN Returned(t) /\ NoPlacedGeometries(c)
       => /\ \/ c.code \in {WEBIFC_ERR_INTERNAL, WEBIFC_ERR_INVALID_MODEL}
             \/ /\ c.code = WEBIFC_OK
                /\ Len(c.out.s_vertices) = 0
                /\ Len(c.out.s_indices) = 0
                /\ s_buffers["webifc_get_flat_mesh"] = EmptyBuffers
          /\ c.out = EmptyBuffers

\* C37 witness: the request for line 3, which has no placed geometries,
\* returned WEBIFC_OK with both counts zero
C37_Witness ==
  \E t \in Threads :
    /\ Returned(t) /\ NoPlacedGeometries(call[t])
    /\ call[t].expressId = 3
    /\ call[t].code = WEBIFC_OK
    /\ "GetFlatMesh" \in call[t].eng
    /\ Len(call[t].out.s_vertices) = 0 /\ Len(call[t].out.s_indices) = 0

\* C38: the vertex array of a returned flat mesh holds XYZ triplets, so its
\* vertexCount divided by 3 is the number of vertices that were flattened
\* into it.
C38_VertexCountOfTriplets ==
  \A t \in Threads :
    LET c == call[t]
    IN /\ Returned(t) /\ c.op = "webifc_get_flat_mesh"
       /\ c.code = WEBIFC_OK
       => Len(c.out.s_vertices) \div XyzTriplet
            = VertsBefore(c.flat, Len(c.flat) + 1)

\* ------------------------------------------------ inverse-property lookup
\* what the loader finds at the examined position of a scanned line: a
\* reference, a set of tokens, or a token of another type.  A token is the
\* express id it refers to, or 0 when it is no reference.
Targets == 0 .. 2
RECURSIVE TokensOfLen(_)
TokensOfLen(n) ==
  IF n = 0 THEN {<<>>}
  ELSE {Append(q, v) : q \in TokensOfLen(n - 1), v \in Targets}

Found ==
  {[type |-> "OTHER", tokens |-> <<>>]}
  \cup {[type |-> "REF", tokens |-> <<v>>] : v \in Targets \ {0}}
  \cup {[type |-> "SET_BEGIN", tokens |-> q] :
          q \in UNION {TokensOfLen(n) : n \in 0 .. MaxSet}}

\* the argument at the examined position of each line GetLineIDsWithType
\* returned, in the order returned (line k is the k-th)
RECURSIVE ScansOfLen(_)
ScansOfLen(n) ==
  IF n = 0 THEN {<<>>}
  ELSE {Append(q, f) : q \in ScansOfLen(n - 1), f \in Found}

Scans == UNION {ScansOfLen(n) : n \in 0 .. MaxScan}

\* the while loop over the tokens of a set, from token j on: the vector and
\* whether the function returned from inside the loop
RECURSIVE ScanSet(_, _, _, _, _, _)
ScanSet(tokens, j, foundExpressID, expressID, set, inverseIDs) ==
  IF j > Len(tokens) THEN [ids |-> inverseIDs, returned |-> FALSE]
  ELSE IF tokens[j] # 0 /\ tokens[j] = expressID
  THEN IF ~set
       THEN [ids |-> Append(inverseIDs, foundExpressID), returned |-> TRUE]
       ELSE ScanSet(tokens, j + 1, foundExpressID, expressID, set,
                    Append(inverseIDs, foundExpressID))
  ELSE ScanSet(tokens, j + 1, foundExpressID, expressID, set, inverseIDs)

RECURSIVE ScanLines_all(_, _, _, _, _)
ScanLines_all(scan, k, expressID, set, inverseIDs) ==
  IF k > Len(scan) THEN inverseIDs
  ELSE LET r == ScanSet(scan[k].tokens, 1, k, expressID, TRUE, inverseIDs)
       IN ScanLines_all(scan, k + 1, expressID, set, r.ids)

\* for (auto foundExpressID : types), from the k-th line on
RECURSIVE ScanLines(_, _, _, _, _)
ScanLines(scan, k, expressID, set, inverseIDs) ==
  IF k > Len(scan) THEN inverseIDs
  ELSE IF scan[k].type = "REF"
  THEN IF scan[k].tokens[1] = expressID
       THEN IF ~set THEN Append(inverseIDs, k)
            ELSE ScanLines(scan, k + 1, expressID, set,
                           Append(inverseIDs, k))
       ELSE ScanLines(scan, k + 1, expressID, set, inverseIDs)
  ELSE IF scan[k].type = "SET_BEGIN"
  THEN LET r == ScanSet(scan[k].tokens, 1, k, expressID, set, inverseIDs)
       IN IF r.returned THEN r.ids
          ELSE ScanLines(scan, k + 1, expressID, set, r.ids)
  ELSE ScanLines(scan, k + 1, expressID, set, inverseIDs)

\* the lookups a caller makes: a handle, the lines scanned, the element
\* looked for and the mode
Lookups ==
  {[NewCall("GetInversePropertyForItem") EXCEPT
      !.model = h, !.expressId = id, !.scan = scan, !.set = set] :
     h \in Handles, id \in Targets \ {0}, scan \in Scans, set \in BOOLEAN}

\* model 0 is open and loaded, and the caller is about to make a lookup
InitInverse ==
  /\ open = {0}
  /\ lines = [h \in Handles |-> IF h = 0 THEN ExpressIds ELSE {}]
  /\ geomTable = FileGeometry
  /\ g_mutex = NoThread
  /\ \E c \in Lookups :
       call = [t \in Threads |-> IF t \in Callers THEN c ELSE NoCall]
  /\ pc = [t \in Threads |-> IF t \in Callers THEN "engine" ELSE "idle"]
  /\ s_buffers = [f \in BufferOwners |-> EmptyBuffers]
  /\ transformation = [h \in Handles |-> Identity]
  /\ deleted_lines = [h \in Handles |-> {}]
  /\ cursor = [h \in Handles |-> NoPosition]
  /\ coordination = [h \in Handles |-> Identity]

\* std::vector<uint32_t> GetInversePropertyForItem(manager, modelID,
\* expressID, targetTypes, position, set)
GetInversePropertyForItem(t) ==
  /\ At(t, "GetInversePropertyForItem", "engine")
  /\ LET c == Checked(t)
     IN IF ~IsModelOpen(c.model)
        THEN Done(t, c)
        ELSE Done(t, [c EXCEPT
               !.eng = {"GetIfcLoader", "GetLineIDsWithType"},
               !.inverseIDs = ScanLines(c.scan, 1, c.expressId, c.set, <<>>)])
  /\ UNCHANGED <<engineVars, g_mutex, s_buffers>>

NextInverse == \E t \in Callers : GetInversePropertyForItem(t)

SpecInverse == InitInverse /\ [][NextInverse]_vars

\* line k of a scan refers to the element
Refers(found, expressID) ==
  \E j \in 1 .. Len(found.tokens) : found.tokens[j] = expressID

\* C36: inverse-property lookup in early-exit mode stops scanning at the
\* first match: it returns exactly one identifier, the first matching
\* element in scan order, whenever the full mode would return a non-empty
\* list, and an empty list otherwise.
C36_EarlyExitFirstMatch ==
  \A t \in Threads :
    LET c == call[t]
        full == ScanLines(c.scan, 1, c.expressId, TRUE, <<>>)
        matching == {k \in 1 .. Len(c.scan) : Refers(c.scan[k], c.expressId)}
    IN /\ Returned(t) /\ c.op = "GetInversePropertyForItem"
       /\ c.valid /\ ~c.set
       => /\ full = <<>> => c.inverseIDs = <<>>
          /\ full # <<>>
               => /\ Len(c.inverseIDs) = 1
                  /\ c.inverseIDs[1] = full[1]
                  /\ c.inverseIDs[1] \in matching
                  /\ \A k \in matching : c.inverseIDs[1] <= k

\* C36 witness: an early-exit lookup over two lines that both refer to the
\* element, the first of them from inside a set
C36_Witness ==
  \E t \in Threads :
    LET c == call[t]
    IN /\ Returned(t) /\ c.op = "GetInversePropertyForItem"
       /\ c.valid /\ ~c.set
       /\ Len(c.scan) = 2
       /\ c.scan[1].type = "SET_BEGIN"
       /\ c.scan[1].tokens = <<c.expressId>>
       /\ c.scan[2].type = "REF" /\ c.scan[2].tokens[1] = c.expressId
       /\ c.inverseIDs = <<1>>

\* --------------------------------------------------------- loader settings
DEFAULT_COORDINATE_TO_ORIGIN == FALSE
DEFAULT_CIRCLE_SEGMENTS == 12
DEFAULT_TAPE_SIZE == 67108864
DEFAULT_LINEWRITER_BUFFER == 10000

\* fields of LoaderSettings, in the order of the struct (MEMORY_LIMIT, whose
\* default 2^31 is beyond the integers of the checker, is resolved by the
\* same expression as the others and is left out)
AllFields ==
  <<"COORDINATE_TO_ORIGIN", "CIRCLE_SEGMENTS", "TAPE_SIZE",
    "LINEWRITER_BUFFER">>
SettingFields == {AllFields[k] : k \in 1 .. MaxFields}

Default(f) ==
  CASE f = "COORDINATE_TO_ORIGIN" -> DEFAULT_COORDINATE_TO_ORIGIN
    [] f = "CIRCLE_SEGMENTS" -> DEFAULT_CIRCLE_SEGMENTS
    [] f = "TAPE_SIZE" -> DEFAULT_TAPE_SIZE
    [] OTHER -> DEFAULT_LINEWRITER_BUFFER

\* another value a caller may store behind the pointer of a field
Other(f) == IF f = "COORDINATE_TO_ORIGIN" THEN TRUE ELSE 1

\* the caller's record whose fields in given are pointers to a value (the
\* fields in other to another value than the default) and the rest null
SettingsRecord(given, other) ==
  [f \in SettingFields |->
     IF f \in given
     THEN [null |-> FALSE,
           value |-> IF f \in other THEN Other(f) ELSE Default(f)]
     ELSE [null |-> TRUE, value |-> Default(f)]]

\* const LoaderSettings *in: null, or a record of field pointers
SettingsPointers ==
  {[null |-> TRUE]}
  \cup {[null |-> FALSE, fields |-> SettingsRecord(g[1], g[2])] :
          g \in {q \in (SUBSET SettingFields) \X (SUBSET SettingFields) :
                   q[2] \subseteq q[1]}}

\* the caller's pointer for field f is usable: (in && in->F)
Given(in, f) == ~in.null /\ ~in.fields[f].null

ifc_api_create_settings_sticky(in) ==
  [f \in SettingFields |->
     IF Given(in, f) THEN in.fields[f].value
     ELSE IF \E t \in Threads : call[t].op = "ifc_api_create_settings"
     THEN call[CHOOSE t \in Threads :
                 call[t].op = "ifc_api_create_settings"].eff[f]
     ELSE Default(f)]

\* s.F = (in && in->F) ? *in->F : DEFAULT_F, for every field F
ifc_api_create_settings(in) ==
  [f \in SettingFields |->
     IF Given(in, f) THEN in.fields[f].value ELSE Default(f)]

\* a caller has a settings record materialized
CreateSettings(t) ==
  /\ pc[t] = "idle"
  /\ \E in \in SettingsPointers :
       Done(t, [NewCall("ifc_api_create_settings") EXCEPT
                  !.settings = in, !.eff = ifc_api_create_settings(in)])
  /\ UNCHANGED <<engineVars, g_mutex, s_buffers>>

NextSettings == \E t \in Threads : CreateSettings(t)

SpecSettings == Init /\ [][NextSettings]_vars

\* C35: when a settings record is materialized for the engine, each field is
\* resolved independently: a field the caller supplied keeps the caller's
\* value and a missing (null) field takes its named default, also when the
\* whole record is absent; resolution happens anew on every call, so a value
\* supplied in one call never carries over to a later call.
C35_FieldsResolvedPerCall ==
  \A t \in Threads :
    LET c == call[t]
    IN Returned(t) /\ c.op = "ifc_api_create_settings"
       => \A f \in SettingFields :
            /\ c.settings.null => c.eff[f] = Default(f)
            /\ ~c.settings.null /\ c.settings.fields[f].null
                 => c.eff[f] = Default(f)
            /\ ~c.settings.null /\ ~c.settings.fields[f].null
                 => c.eff[f] = c.settings.fields[f].value

\* C35 witness: one record was materialized from a value the caller
\* supplied for CIRCLE_SEGMENTS and a null COORDINATE_TO_ORIGIN, and another
\* from no record at all, which has the default for CIRCLE_SEGMENTS
C35_Witness ==
  \E t \in Threads, u \in Threads :
    /\ Returned(t) /\ call[t].op = "ifc_api_create_settings"
    /\ Returned(u) /\ call[u].op = "ifc_api_create_settings"
    /\ ~call[t].settings.null
    /\ call[t].settings.fields["COORDINATE_TO_ORIGIN"].null
    /\ ~call[t].settings.fields["CIRCLE_SEGMENTS"].null
    /\ call[t].eff["CIRCLE_SEGMENTS"] = 1
    /\ call[t].eff["COORDINATE_TO_ORIGIN"] = DEFAULT_COORDINATE_TO_ORIGIN
    /\ call[u].settings.null
    /\ call[u].eff["CIRCLE_SEGMENTS"] = DEFAULT_CIRCLE_SEGMENTS
====
